---- MODULE Spec2Model ----
(***************************************************************************)
(* A model of the Narada Python SDK's initialization handshake and         *)
(* request/response protocols.                                             *)
(*                                                                         *)
(*   Part I   the selector race of                                         *)
(*            Narada._wait_for_browser_window_id_silently (client.py)      *)
(*   Part II  the remote dispatch call                                     *)
(*            BaseBrowserWindow.dispatch_request (window.py)               *)
(*   Part III the wire encoders of the action models (actions/models.py)   *)
(*   Part IV  an extension action                                          *)
(*            BaseBrowserWindow._run_extension_action (window.py)          *)
(*   Part V   the launch coordinator Narada._launch_browser (client.py)    *)
(*                                                                         *)
(* Each part has its own specification (SpecRace, SpecDispatch,            *)
(* SpecEncode, SpecAction, SpecLaunch); the variables of the other parts   *)
(* stay at their initial value.                                            *)
(***************************************************************************)
EXTENDS Integers, Sequences, FiniteSets, TLC

VARIABLES
    \* ---- Part I: selector race
    legacy,       \* TRUE: the earlier revision's _wait_for_selector_attached (except Exception)
    textContent,  \* what text_content() of the window-id element yielded
    task,         \* marker -> state of its asyncio task
    threw,        \* markers whose page.wait_for_selector raised a non-timeout error
    wpc,          \* position of _wait_for_browser_window_id_silently
    done,         \* the `done` set asyncio.wait returned
    decider,      \* the loop variable `task` when the waiter left the for loop
    outcome,      \* what the waiter returned or raised
    \* ---- Part II: dispatch_request
    dpc,          \* position of dispatch_request
    timeout,      \* the caller's timeout argument (seconds)
    outputSchema, \* TRUE when an output_schema was passed
    now,          \* time.monotonic(), seconds since the call began
    deadline,     \* deadline = time.monotonic() + timeout
    requestId,    \* request_id taken from the submission answer
    pendingSeen,  \* number of poll answers with status pending
    log,          \* the HTTP requests and sleeps issued so far, in order
    answer,       \* the JSON body of the last poll answer
    fault,        \* the error the HTTP layer raised inside the try block, if any
    result,       \* what dispatch_request returned or raised
    agentResult,  \* what agent() returned or raised
    \* ---- Part III: wire encoders
    epc,          \* position of the encoder call
    plain,        \* the encoder and the Python value handed to it
    wire,         \* what the encoder returned or raised
    \* ---- Part IV: extension action
    xpc,          \* position of the method call
    call,         \* the public method called and its action argument
    responseModel,\* the response_model argument of _run_extension_action
    posts,        \* number of POST /extension-actions requests sent
    httpStatus,   \* resp.status, 0 before the answer
    bodyRead,     \* TRUE once resp.json() was awaited
    respJson,     \* resp_json
    runResult,    \* what _run_extension_action returned or raised
    xresult,      \* what the method returned or raised
    \* ---- Part V: launch coordinator
    lpc,          \* position of the coordinator
    rev,          \* "current" (packages/narada) or "earlier" (src/narada/client.py)
    mode,         \* "spawn": open_and_initialize_browser_window; "attach": the existing window
    tag,          \* window_tag of the running _launch_browser call
    attempt,      \* the loop variable `attempt`
    spawned,      \* number of browser processes created by this call
    connected,    \* TRUE while a CDP connection is open
    pages,        \* context.pages as last seen
    waitedOn,     \* the pages a readiness wait was run on, each with the tag then in use
    windowId,     \* browser_window_id, "" for None
    panelFound,   \* side_panel_page is not None
    slept,        \* seconds of the last asyncio.sleep, 0 before any
    lresult,      \* what the coordinator returned or raised
    proxy,        \* config.proxy: "none", "open" (no credentials) or "auth"
    launchUrl,    \* the URL on the browser's command line, NoPage before a spawn
    didNav,       \* did_initial_navigation
    plog,         \* the interceptor and navigation steps of this launch, in order
    \* ---- Part VI: readiness wait
    rpc,          \* position of _wait_for_browser_window_id
    interactive,  \* config.interactive
    closedAt,     \* the step at which the driver found the page closed, "" if none
    rlog,         \* the waits, prompts and page operations so far, in order
    rresult,      \* what _wait_for_browser_window_id returned or raised, or the exit
    \* ---- Part VII: window handles
    hkind,        \* handle -> "local", "remote" or "managed"
    hwid,         \* handle -> its _browser_window_id
    hpc,          \* handle -> the operation it is in, "idle" if none
    hbrowser,     \* handle -> whether a managed handle's _browser is set
    sent,         \* the requests the handles have sent
    \* ---- Part VIII: entering the client context
    gpc,          \* position of Narada.__aenter__
    version,      \* __version__ of the installed package
    sdkConfig,    \* what _fetch_sdk_config returned
    playwright,   \* whether the automation driver was started
    gresult,      \* what __aenter__ returned or raised
    \* ---- Part IX: opening a cloud browser window
    cpc,          \* position of open_and_initialize_cloud_browser_window
    cinteractive, \* config.interactive
    csession,     \* session_id of the created session, "" before
    cattempt,     \* attempt of the readiness loop
    cwid,         \* browser_window_id, "" while unbound
    cerr,         \* the initialization error held during cleanup
    stops,        \* the stop-cloud-browser-session requests sent, in order
    cresult,      \* what the call returned or raised, or the exit
    \* ---- Part X: the download tracker and its waiters
    dlpc,         \* position of the waiter, "idle" while none is running
    caller,       \* the waiter that was called, "" while none
    timed,        \* whether its timeout is not None
    dtimeout,     \* its timeout, in polling intervals of 0.5 s
    dnow,         \* the event loop's time, in polling intervals
    ddeadline,    \* deadline of the polling loop
    waitStart,    \* when the wait on the done event or events began
    downloads,    \* _downloads: guid -> [state, received], Absent if no entry
    order,        \* the guids of _downloads in insertion order
    done_events,  \* _done_events: guid -> "absent", "clear" or "set"
    target,       \* target_guid, "" while None
    gathered,     \* the guids whose done events wait_for_all gathered
    polled,       \* whether wait_for_download entered its polling loop
    early,        \* the guids whose download began before the listeners were attached
    hasCallback,  \* on_download_complete is set
    hasSession,   \* session_id is set
    transfers,    \* the calls of on_download_complete scheduled, in order
    fresh,        \* the guids whose download began after the waiter was called
    doneAt,       \* guid -> the time its completed event was handled, -1 if none
    dresult,      \* what the waiter returned
    \* ---- Part XI: managed window connection
    mpc,          \* position inside connect() or cleanup(), "idle" between calls
    m_playwright, \* self._playwright: the driver's number, 0 for None
    m_browser,    \* self._browser: the connection's number, 0 for None
    m_context,    \* self._context: the number of its connection, 0 for None
    m_page,       \* self._page: the number of its connection, 0 for None
    drivers,      \* drivers started so far
    connections,  \* connections opened so far
    mstops,       \* stop-session requests posted so far
    mcalls,       \* connect() and cleanup() calls made so far
    mlast,        \* the last call that ended and how it ended
    \* ---- Part XII: two concurrent launches in one browser
    qproxy,       \* whether the shared config has a proxy with credentials
    tabs,         \* per window of the shared browser, the URL its page shows
    qpc,          \* per call, its position in _launch_browser
    qattempt,     \* per call, `attempt` of its connect loop
    qnav,         \* per call, did_initial_navigation
    qwait,        \* per call, the window whose page its readiness wait runs on
    qresult       \* per call, what _launch_browser returned or raised

raceVars == <<legacy, textContent, task, threw, wpc, done, decider, outcome>>
dispatchVars == <<dpc, timeout, outputSchema, now, deadline, requestId,
                  pendingSeen, log, answer, fault, result, agentResult>>
encodeVars == <<epc, plain, wire>>
actionVars == <<xpc, call, responseModel, posts, httpStatus, bodyRead, respJson,
                runResult, xresult>>
proxyVars == <<proxy, launchUrl, didNav, plog>>
launchVars == <<lpc, rev, mode, tag, attempt, spawned, connected, pages, waitedOn,
                windowId, panelFound, slept, lresult, proxyVars>>
readinessVars == <<rpc, interactive, closedAt, rlog, rresult>>
handlesVars == <<hkind, hwid, hpc, hbrowser, sent>>
enterVars == <<gpc, version, sdkConfig, playwright, gresult>>
cloudVars == <<cpc, cinteractive, csession, cattempt, cwid, cerr, stops,
               cresult>>
downloadVars == <<dlpc, caller, timed, dtimeout, dnow, ddeadline, waitStart,
                  downloads, order, done_events, target, gathered, polled, early,
                  hasCallback, hasSession, transfers, fresh, doneAt, dresult>>
managedVars == <<mpc, m_playwright, m_browser, m_context, m_page, drivers,
                 connections, mstops, mcalls, mlast>>
concurrentVars == <<qproxy, tabs, qpc, qattempt, qnav, qwait, qresult>>

\* The variables a part leaves alone.
notRace == <<dispatchVars, encodeVars, actionVars, launchVars, readinessVars,
             handlesVars, enterVars, cloudVars, downloadVars, managedVars,
             concurrentVars>>
notDispatch == <<raceVars, encodeVars, actionVars, launchVars, readinessVars,
                 handlesVars, enterVars, cloudVars, downloadVars, managedVars,
                 concurrentVars>>
notEncode == <<raceVars, dispatchVars, actionVars, launchVars, readinessVars,
               handlesVars, enterVars, cloudVars, downloadVars, managedVars,
               concurrentVars>>
notAction == <<raceVars, dispatchVars, encodeVars, launchVars, readinessVars,
               handlesVars, enterVars, cloudVars, downloadVars, managedVars,
               concurrentVars>>
notLaunch == <<raceVars, dispatchVars, encodeVars, actionVars, readinessVars,
               handlesVars, enterVars, cloudVars, downloadVars, managedVars,
               concurrentVars>>
notReadiness == <<raceVars, dispatchVars, encodeVars, actionVars, launchVars,
                  handlesVars, enterVars, cloudVars, downloadVars, managedVars,
                  concurrentVars>>
notHandles == <<raceVars, dispatchVars, encodeVars, actionVars, launchVars,
                readinessVars, enterVars, cloudVars, downloadVars, managedVars,
                concurrentVars>>
notEnter == <<raceVars, dispatchVars, encodeVars, actionVars, launchVars,
              readinessVars, handlesVars, cloudVars, downloadVars, managedVars,
              concurrentVars>>
notCloud == <<raceVars, dispatchVars, encodeVars, actionVars, launchVars,
              readinessVars, handlesVars, enterVars, downloadVars, managedVars,
              concurrentVars>>
notDownload == <<raceVars, dispatchVars, encodeVars, actionVars, launchVars,
                 readinessVars, handlesVars, enterVars, cloudVars, managedVars,
                 concurrentVars>>
notManaged == <<raceVars, dispatchVars, encodeVars, actionVars, launchVars,
                readinessVars, handlesVars, enterVars, cloudVars, downloadVars,
                concurrentVars>>
notConcurrent == <<raceVars, dispatchVars, encodeVars, actionVars, launchVars,
                   readinessVars, handlesVars, enterVars, cloudVars,
                   downloadVars, managedVars>>

vars == <<raceVars, dispatchVars, encodeVars, actionVars, launchVars,
          readinessVars, handlesVars, enterVars, cloudVars, downloadVars,
          managedVars, concurrentVars>>

(***************************************************************************)
(* Part I.  The selector race.                                             *)
(***************************************************************************)

\* The five selectors, in the order of the `selectors` list.
Markers == {"ready", "unsupported_browser", "extension_missing",
            "extension_unauthenticated", "initialization_error"}

ErrorMarkers == Markers \ {"ready"}

\* The selectors a revision races: the earlier one has no unauthenticated indicator.
Selectors(lg) == IF lg THEN Markers \ {"extension_unauthenticated"} ELSE Markers

\* What page.wait_for_selector(selector, state="attached", timeout=...) can do.
WaitEvents == {"attached", "timeout", "error"}

\* Results of ElementHandle.text_content(): None, a string, or a driver error.
TextNone == [tag |-> "None", s |-> ""]
TextError == [tag |-> "PlaywrightError", s |-> ""]
TextStr(s) == [tag |-> "str", s |-> s]
TextUnread == [tag |-> "unread", s |-> ""]
WindowIdTexts == {"", "win-1", "win-2"}
TextContents == {TextNone, TextError} \cup {TextStr(s) : s \in WindowIdTexts}

NoOutcome == [kind |-> "none", val |-> ""]
Return(v) == [kind |-> "return", val |-> v]
Raise(e) == [kind |-> "raise", val |-> e]

\* A task that has finished with a result or an exception (Task.done()).
Completed(st) == st \in {"elem", "none", "exc"}

\* A faulty variant of wait_for_selector_attached: every exception is swallowed.
wait_for_selector_attached_swallow(ev) ==
    IF ev = "attached" THEN "elem" ELSE "none"

\* The task's final state: the element, None on PlaywrightTimeoutError; any other
\* exception leaves the coroutine and becomes the task's exception.
wait_for_selector_attached(ev) ==
    CASE ev = "attached" -> "elem"
      [] ev = "timeout" -> "none"
      [] ev = "error" -> "exc"

\* The earlier revision: `except Exception: return None`.
wait_for_selector_attached_legacy(ev) ==
    CASE ev = "attached" -> "elem"
      [] ev = "timeout" -> "none"
      [] ev = "error" -> "none"

\* One of the five tasks finishes while asyncio.wait is still suspended.
TaskCompletes(m, ev) ==
    /\ wpc = "waiting"
    /\ task[m] = "running"
    /\ task' = [task EXCEPT ![m] = IF legacy
                                    THEN wait_for_selector_attached_legacy(ev)
                                    ELSE wait_for_selector_attached(ev)]
    /\ threw' = IF ev = "error" THEN threw \cup {m} ELSE threw
    /\ UNCHANGED <<legacy, textContent, wpc, done, decider, outcome>>
    /\ UNCHANGED notRace

\* A faulty variant of CancelPending: the losing waits are left alone.
CancelPendingNone(t) == t

\* `for task in pending: task.cancel()`: every task that has not finished is
\* asked to cancel.
CancelPending(t) ==
    [m \in Markers |-> IF t[m] = "running" THEN "cancelling" ELSE t[m]]

\* A faulty variant of ErrorFor: two indicators exchanged.
ErrorForSwapped(m) ==
    CASE m = "unsupported_browser" -> "NaradaUnsupportedBrowserError"
      [] m = "extension_missing" -> "NaradaExtensionUnauthenticatedError"
      [] m = "extension_unauthenticated" -> "NaradaExtensionMissingError"
      [] m = "initialization_error" -> "NaradaInitializationError"

\* The typed error raised for each indicator task whose result is an element.
ErrorFor(m) ==
    CASE m = "unsupported_browser" -> "NaradaUnsupportedBrowserError"
      [] m = "extension_missing" -> "NaradaExtensionMissingError"
      [] m = "extension_unauthenticated" -> "NaradaExtensionUnauthenticatedError"
      [] m = "initialization_error" -> "NaradaInitializationError"

\* A task of `done` at which the for loop stops: the window-id task always does;
\* an indicator task does when result() raises or is not None.
Decisive(t, m) == m = "ready" \/ t[m] \in {"elem", "exc"}

\* The body of `for task in done` for a decisive task m: NoOutcome stands for
\* "suspended in text_content()".
LoopBody(t, m) ==
    CASE t[m] = "exc" -> Raise("PlaywrightError")
      [] m = "ready" /\ t[m] = "none" -> Raise("NaradaTimeoutError")
      [] m = "ready" /\ t[m] = "elem" -> NoOutcome
      [] OTHER -> Raise(ErrorFor(m))

\* asyncio.wait returns because a task has finished: `done` holds every task
\* finished by now, the others are cancelled, and the for loop runs over `done`
\* in the set's iteration order, so any decisive task of `done` may come first.
WaitReturns ==
    /\ wpc = "waiting"
    /\ \E m \in Markers : Completed(task[m])
    /\ done' = {m \in Markers : Completed(task[m])}
    /\ task' = CancelPending(task)
    /\ \/ \E m \in done' :
            /\ Decisive(task, m)
            /\ decider' = m
            /\ outcome' = LoopBody(task, m)
            /\ wpc' = IF outcome' = NoOutcome THEN "text_content" ELSE "done"
       \/ /\ \A m \in done' : ~Decisive(task, m)
          /\ decider' = "none"
          /\ outcome' = Raise("AssertionError")
          /\ wpc' = "done"
    /\ UNCHANGED <<legacy, textContent, threw>>
    /\ UNCHANGED notRace

\* asyncio.wait's own timeout elapses before any task has finished.
WaitTimesOut ==
    /\ wpc = "waiting"
    /\ \A m \in Markers : ~Completed(task[m])
    /\ done' = {}
    /\ task' = CancelPending(task)
    /\ decider' = "none"
    /\ outcome' = Raise("NaradaTimeoutError")
    /\ wpc' = "done"
    /\ UNCHANGED <<legacy, textContent, threw>>
    /\ UNCHANGED notRace

\* `browser_window_id = await elem.text_content()`, the None check, the return.
WindowIdResult(tc) ==
    CASE tc.tag = "PlaywrightError" -> Raise("PlaywrightError")
      [] tc.tag = "None" -> Raise("NaradaInitializationError")
      [] OTHER -> Return(tc.s)

\* text_content() completes with whatever the element holds at that moment.
TextContentReturns ==
    /\ wpc = "text_content"
    /\ \E tc \in TextContents :
          /\ textContent' = tc
          /\ outcome' = WindowIdResult(tc)
    /\ wpc' = "done"
    /\ UNCHANGED <<legacy, task, threw, done, decider>>
    /\ UNCHANGED notRace

\* The event loop delivers CancelledError to a task that was asked to cancel.
TaskCancelled(m) ==
    /\ task[m] = "cancelling"
    /\ task' = [task EXCEPT ![m] = "cancelled"]
    /\ UNCHANGED <<legacy, textContent, threw, wpc, done, decider, outcome>>
    /\ UNCHANGED notRace

RaceNext ==
    \/ \E m \in Markers, ev \in WaitEvents : TaskCompletes(m, ev)
    \/ WaitReturns
    \/ WaitTimesOut
    \/ TextContentReturns
    \/ \E m \in Markers : TaskCancelled(m)

(***************************************************************************)
(* Part II.  dispatch_request.                                             *)
(***************************************************************************)

\* Largest timeout argument, longest HTTP round trip and latest clock reading at
\* the call (all in seconds) that are explored.
MaxTimeout == 7
MaxRtt == 1
MaxStart == 1

\* `await asyncio.sleep(3)`.
PollInterval == 3

RequestIds == {"req-1", "req-2"}
Statuses == {"pending", "success", "error", "input-required"}

\* Response texts, and what output_schema.model_validate_json makes of each for
\* a schema with one integer field n.
Texts == {"{'n': 1}", "{'n': 2}", "{'m': 1}", "not json"}

SoAbsent == [tag |-> "absent", n |-> 0]
SoNone == [tag |-> "None", n |-> 0]
SoModel(n) == [tag |-> "model", n |-> n]
SoInvalid == [tag |-> "ValidationError", n |-> 0]

model_validate_json(text) ==
    CASE text = "{'n': 1}" -> SoModel(1)
      [] text = "{'n': 2}" -> SoModel(2)
      [] OTHER -> SoInvalid

\* response["response"]: null, or an object with its text.
Null == [tag |-> "null", text |-> "", structuredOutput |-> SoAbsent]
Content(text) == [tag |-> "object", text |-> text, structuredOutput |-> SoAbsent]
Contents == {Null} \cup {Content(t) : t \in Texts}

\* Bodies of the status endpoint. A pending body carries no content and echoes
\* the id; a terminal body may carry any content and any (or no) requestId.
PendingBody(rid) == [status |-> "pending", requestId |-> rid, response |-> Null]
TerminalBodies ==
    [status : Statuses \ {"pending"}, requestId : RequestIds \cup {""},
     response : Contents]
Bodies == {PendingBody(rid) : rid \in RequestIds} \cup TerminalBodies
NoBody == [status |-> "", requestId |-> "", response |-> Null]

NoResult == [kind |-> "none", err |-> "", arg |-> 0, response |-> NoBody]
Returned(r) == [kind |-> "return", err |-> "", arg |-> 0, response |-> r]
Raised(e, a) == [kind |-> "raise", err |-> e, arg |-> a, response |-> NoBody]

Post(total) == [op |-> "POST", arg |-> total]
Get(total) == [op |-> "GET", arg |-> total]
Sleep(secs) == [op |-> "SLEEP", arg |-> secs]

\* A faulty variant of AgentTimeoutError: the deadline is passed instead of the timeout.
AgentTimeoutErrorDeadline == Raised("NaradaAgentTimeoutError", deadline)

\* NaradaAgentTimeoutError_INTERNAL_DO_NOT_USE(timeout).
AgentTimeoutError == Raised("NaradaAgentTimeoutError", timeout)

\* A faulty variant of ExceptHandler: every error of the try block becomes the agent timeout.
ExceptHandlerAny(e) == AgentTimeoutError

\* `except asyncio.TimeoutError: raise NaradaAgentTimeoutError...(timeout)`; any
\* other exception leaves dispatch_request as it is.
ExceptHandler(e) ==
    IF e = "asyncio.TimeoutError" THEN AgentTimeoutError ELSE Raised(e, 0)

\* Errors of an HTTP round trip other than the transport timeout: a connection
\* failure, and raise_for_status() on a non-2xx answer.
TransportErrors == {"ClientConnectionError", "ClientResponseError"}

\* deadline = time.monotonic() + timeout, then the POST is sent with
\* ClientTimeout(total=timeout).
Submit ==
    /\ dpc = "idle"
    /\ deadline' = now + timeout
    /\ log' = Append(log, Post(timeout))
    /\ dpc' = "submitted"
    /\ UNCHANGED <<timeout, outputSchema, now, requestId, pendingSeen, answer,
                   fault, result>>
    /\ UNCHANGED agentResult
    /\ UNCHANGED notDispatch

\* The POST is answered 2xx with {"requestId": rid}; d seconds later the loop
\* head reads the clock. The answer came within the transport timeout, so the
\* clock is at most at the deadline then; a total of 0 disables that timeout.
PostAnswers(d, rid) ==
    /\ dpc = "submitted"
    /\ d <= timeout \/ timeout = 0
    /\ now' = now + d
    /\ requestId' = rid
    /\ dpc' = "polling"
    /\ UNCHANGED <<timeout, outputSchema, deadline, pendingSeen, log, answer,
                   fault, result>>
    /\ UNCHANGED agentResult
    /\ UNCHANGED notDispatch

\* A faulty variant of PostFails: the submission is sent again after a failure.
PostFailsRetry(e) ==
    /\ dpc = "submitted"
    /\ fault' = e
    /\ log' = Append(log, Post(timeout))
    /\ Len(log) < 3
    /\ UNCHANGED <<dpc, timeout, outputSchema, now, deadline, requestId,
                   pendingSeen, answer, result>>
    /\ UNCHANGED agentResult
    /\ UNCHANGED notDispatch

\* The POST fails: connection failure, non-2xx, or a 2xx body without requestId.
PostFails(e) ==
    /\ dpc = "submitted"
    /\ fault' = e
    /\ result' = ExceptHandler(e)
    /\ dpc' = "raised"
    /\ UNCHANGED <<timeout, outputSchema, now, deadline, requestId, pendingSeen,
                   log, answer>>
    /\ UNCHANGED agentResult
    /\ UNCHANGED notDispatch

\* The POST's transport timeout (total=timeout) fires.
PostTimesOut ==
    /\ dpc = "submitted"
    /\ timeout > 0
    /\ now' = now + timeout
    /\ fault' = "asyncio.TimeoutError"
    /\ result' = ExceptHandler("asyncio.TimeoutError")
    /\ dpc' = "raised"
    /\ UNCHANGED <<timeout, outputSchema, deadline, requestId, pendingSeen, log,
                   answer>>
    /\ UNCHANGED agentResult
    /\ UNCHANGED notDispatch

\* A faulty variant of LoopGuard: the deadline itself still polls.
LoopGuardInclusive == now <= deadline

\* `while (now := time.monotonic()) < deadline`.
LoopGuard == now < deadline

\* The loop head: either the next GET is sent with
\* ClientTimeout(total=deadline - now), or the while's else clause raises.
LoopHead ==
    /\ dpc = "polling"
    /\ IF LoopGuard
       THEN /\ log' = Append(log, Get(deadline - now))
            /\ dpc' = "getting"
            /\ UNCHANGED <<fault, result>>
       ELSE /\ result' = AgentTimeoutError
            /\ dpc' = "raised"
            /\ UNCHANGED <<fault, log>>
    /\ UNCHANGED <<timeout, outputSchema, now, deadline, requestId, pendingSeen,
                   answer>>
    /\ UNCHANGED agentResult
    /\ UNCHANGED notDispatch

\* A faulty variant of StampRequestId: the body's own requestId is kept.
StampRequestIdKeep(body, rid) == body

\* response["requestId"] = request_id.
StampRequestId(body, rid) == [body EXCEPT !.requestId = rid]

\* A faulty variant of PopulateStructuredOutput: without a schema the field is not set.
PopulateStructuredOutputSkip(schema, content) ==
    IF content.tag = "null" \/ ~schema
    THEN content
    ELSE [content EXCEPT !.structuredOutput = model_validate_json(content.text)]

\* The structuredOutput field of a non-null response content: None without a
\* schema, otherwise output_schema.model_validate_json(text), which may raise.
PopulateStructuredOutput(schema, content) ==
    IF content.tag = "null"
    THEN content
    ELSE [content EXCEPT !.structuredOutput =
              IF schema THEN model_validate_json(content.text) ELSE SoNone]

\* `if response["status"] != "pending"`.
IsTerminal(body) == body.status # "pending"

\* The GET is answered 2xx after d seconds, inside its transport timeout.
GetAnswers(d, body) ==
    /\ dpc = "getting"
    /\ body.status = "pending" => body.requestId = requestId
    /\ now + d < deadline
    /\ now' = now + d
    /\ LET stamped == StampRequestId(body, requestId)
           content == PopulateStructuredOutput(outputSchema, stamped.response)
       IN  /\ answer' = stamped
           /\ IF IsTerminal(stamped)
              THEN /\ IF content.structuredOutput = SoInvalid
                      THEN /\ result' = ExceptHandler("ValidationError")
                           /\ dpc' = "raised"
                      ELSE /\ result' = Returned([stamped EXCEPT !.response = content])
                           /\ dpc' = "returned"
                   /\ UNCHANGED <<pendingSeen, log>>
              ELSE /\ pendingSeen' = pendingSeen + 1
                   /\ log' = Append(log, Sleep(PollInterval))
                   /\ dpc' = "sleeping"
                   /\ UNCHANGED result
    /\ UNCHANGED <<timeout, outputSchema, deadline, requestId, fault>>
    /\ UNCHANGED agentResult
    /\ UNCHANGED notDispatch

\* A faulty variant of GetFails: every failure of the GET is raised as the
\* agent-timeout error.
GetFailsMapped(e) ==
    /\ dpc = "getting"
    /\ fault' = e
    /\ result' = AgentTimeoutError
    /\ dpc' = "raised"
    /\ UNCHANGED <<timeout, outputSchema, now, deadline, requestId, pendingSeen,
                   log, answer>>
    /\ UNCHANGED agentResult
    /\ UNCHANGED notDispatch

\* The GET fails: connection failure or non-2xx.
GetFails(e) ==
    /\ dpc = "getting"
    /\ fault' = e
    /\ result' = ExceptHandler(e)
    /\ dpc' = "raised"
    /\ UNCHANGED <<timeout, outputSchema, now, deadline, requestId, pendingSeen,
                   log, answer>>
    /\ UNCHANGED agentResult
    /\ UNCHANGED notDispatch

\* The GET's transport timeout (total=deadline - now) fires at the deadline.
GetTimesOut ==
    /\ dpc = "getting"
    /\ now' = deadline
    /\ fault' = "asyncio.TimeoutError"
    /\ result' = ExceptHandler("asyncio.TimeoutError")
    /\ dpc' = "raised"
    /\ UNCHANGED <<timeout, outputSchema, deadline, requestId, pendingSeen, log,
                   answer>>
    /\ UNCHANGED agentResult
    /\ UNCHANGED notDispatch

\* asyncio.sleep(3) is over.
SleepEnds ==
    /\ dpc = "sleeping"
    /\ now' = now + PollInterval
    /\ dpc' = "polling"
    /\ UNCHANGED <<timeout, outputSchema, deadline, requestId, pendingSeen, log,
                   answer, fault, result>>
    /\ UNCHANGED agentResult
    /\ UNCHANGED notDispatch

\* What agent() gives its caller.
ANoResult == [kind |-> "none", err |-> ""]
ARaised(e) == [kind |-> "raise", err |-> e]
AgentResponse(r) ==
    [kind |-> "AgentResponse", err |-> "", request_id |-> r.requestId,
     status |-> r.status, text |-> r.response.text,
     structured_output |-> r.response.structuredOutput]

\* The rest of agent() after dispatch_request: an exception of the dispatch
\* passes through; `assert response_content is not None`; then the
\* AgentResponse is built from the terminal response.
AgentReturns ==
    /\ dpc \in {"returned", "raised"}
    /\ agentResult = ANoResult
    /\ agentResult' =
           CASE result.kind = "raise" -> ARaised(result.err)
             [] result.response.response.tag = "null" -> ARaised("AssertionError")
             [] OTHER -> AgentResponse(result.response)
    /\ UNCHANGED <<dpc, timeout, outputSchema, now, deadline, requestId,
                   pendingSeen, log, answer, fault, result>>
    /\ UNCHANGED notDispatch

DispatchNext ==
    \/ Submit
    \/ \E d \in 0..MaxRtt, rid \in RequestIds : PostAnswers(d, rid)
    \/ \E e \in TransportErrors \cup {"KeyError"} : PostFails(e)
    \/ PostTimesOut
    \/ LoopHead
    \/ \E d \in 0..MaxRtt, body \in Bodies : GetAnswers(d, body)
    \/ \E e \in TransportErrors : GetFails(e)
    \/ GetTimesOut
    \/ SleepEnds
    \/ AgentReturns

(***************************************************************************)
(* Part III.  The wire encoders of the action models.                      *)
(***************************************************************************)

MaxKeys == 2

\* The keys of AgenticSelectors (a TypedDict with total=False, every value a str).
SelectorKeys == {"id", "data_testid", "name", "aria_label", "role", "type",
                 "text_content", "tag_name", "class_name", "dom_path", "xpath"}

SelectorValues == {"", "a", "b"}

\* Selector bags: any keys may be absent.
SelectorBags ==
    UNION {[K -> SelectorValues] :
               K \in {K \in SUBSET SelectorKeys : Cardinality(K) <= MaxKeys}}

\* The key under which _dump_agentic_selectors stores a selector.
WireKey(k) ==
    CASE k = "data_testid" -> "dataTestId"
      [] k = "aria_label" -> "ariaLabel"
      [] k = "text_content" -> "textContent"
      [] k = "tag_name" -> "tagName"
      [] k = "class_name" -> "className"
      [] k = "dom_path" -> "domPath"
      [] OTHER -> k

\* The truth value of a str in `if x := selectors.get(key):`.
Truthy(v) == v # ""

dump_agentic_selectors(selectors) ==
    LET kept == {k \in DOMAIN selectors : Truthy(selectors[k])}
    IN  [w \in {WireKey(k) : k \in kept} |->
            [value |-> selectors[CHOOSE k \in kept : WireKey(k) = w]]]

\* property_name is declared a str; the encoder reads its attribute `value`,
\* which a str lacks and a member of an enumeration has.
PropStr(s) == [py |-> "str", s |-> s]
PropMember(s) == [py |-> "enum", s |-> s]
PropertyNames == {PropStr("className"), PropMember("className")}

FillValues == {"", "abc"}
OptionIndexes == {0, 2}
OptionValues == {"", "opt"}

\* The values of AgenticSelectorAction.
SelectorActions ==
    [type : {"click", "right_click", "double_click", "hover", "get_text"}]
    \cup [type : {"fill"}, value : FillValues]
    \cup [type : {"select_option_by_index"}, value : OptionIndexes]
    \cup [type : {"select_option_by_value"}, value : OptionValues]
    \cup [type : {"get_property"}, property_name : PropertyNames]

Dumped(d) == [kind |-> "return", val |-> d]
DumpRaised(e) == [kind |-> "raise", val |-> e]
NotDumped == [kind |-> "none", val |-> ""]

dump_agentic_selector_action(action) ==
    CASE action.type = "click" -> Dumped(action)
      [] action.type = "right_click" -> Dumped([type |-> "rightClick"])
      [] action.type = "double_click" -> Dumped([type |-> "doubleClick"])
      [] action.type = "hover" -> Dumped([type |-> "hover"])
      [] action.type = "fill" -> Dumped(action)
      [] action.type = "select_option_by_index" ->
             Dumped([type |-> "selectOptionByIndex", value |-> action.value])
      [] action.type = "select_option_by_value" ->
             Dumped([type |-> "selectOptionByValue", value |-> action.value])
      [] action.type = "get_text" -> Dumped([type |-> "getText"])
      [] action.type = "get_property" ->
             IF action.property_name.py = "enum"
             THEN Dumped([type |-> "getProperty",
                          propertyName |-> action.property_name.s])
             ELSE DumpRaised("AttributeError")

Texts2 == {"", "hi"}
Deltas == {-1, 0, 2}

\* The values of AgenticMouseAction; press_enter is NotRequired.
MouseActions ==
    [type : {"click", "right_click", "double_click"}]
    \cup [type : {"fill"}, text : Texts2]
    \cup [type : {"fill"}, text : Texts2, press_enter : BOOLEAN]
    \cup [type : {"scroll"}, horizontal : Deltas, vertical : Deltas]

dump_agentic_mouse_action(action) ==
    CASE action.type = "click" -> Dumped([type |-> "click"])
      [] action.type = "right_click" -> Dumped([type |-> "rightClick"])
      [] action.type = "double_click" -> Dumped([type |-> "doubleClick"])
      [] action.type = "fill" ->
             Dumped([type |-> "fill", text |-> action.text,
                     pressEnter |-> IF "press_enter" \in DOMAIN action
                                    THEN action.press_enter ELSE FALSE])
      [] action.type = "scroll" ->
             Dumped([type |-> "scroll", deltaX |-> action.horizontal,
                     deltaY |-> action.vertical])

\* The value handed to an encoder.
PlainValues ==
    [fn : {"selector_action"}, arg : SelectorActions]
    \cup [fn : {"selectors"}, arg : SelectorBags]
    \cup [fn : {"mouse_action"}, arg : MouseActions]

DumpAgenticSelectorAction ==
    /\ epc = "input"
    /\ plain.fn = "selector_action"
    /\ wire' = dump_agentic_selector_action(plain.arg)
    /\ epc' = "dumped"
    /\ UNCHANGED plain
    /\ UNCHANGED notEncode

DumpAgenticSelectors ==
    /\ epc = "input"
    /\ plain.fn = "selectors"
    /\ wire' = Dumped(dump_agentic_selectors(plain.arg))
    /\ epc' = "dumped"
    /\ UNCHANGED plain
    /\ UNCHANGED notEncode

DumpAgenticMouseAction ==
    /\ epc = "input"
    /\ plain.fn = "mouse_action"
    /\ wire' = dump_agentic_mouse_action(plain.arg)
    /\ epc' = "dumped"
    /\ UNCHANGED plain
    /\ UNCHANGED notEncode

EncodeNext ==
    \/ DumpAgenticSelectorAction
    \/ DumpAgenticSelectors
    \/ DumpAgenticMouseAction

(***************************************************************************)
(* Part IV.  An extension action: a public method of the window and        *)
(* BaseBrowserWindow._run_extension_action.                                *)
(***************************************************************************)

PyNone == [py |-> "None", s |-> ""]
PyStr(s) == [py |-> "str", s |-> s]

\* The public methods that run an extension action.
MethodNames == {"agentic_selector", "agentic_mouse_action", "close", "go_to_url",
                "print_message", "read_google_sheet", "write_google_sheet",
                "get_full_html", "get_simplified_html", "get_screenshot"}

NoAction == [type |-> "none"]

\* A call: the method and, for the two agentic methods, its action argument.
Calls ==
    [name : {"agentic_selector"}, action : SelectorActions]
    \cup [name : {"agentic_mouse_action"},
          action : {a \in MouseActions : a.type \in {"click", "scroll"}}]
    \cup [name : MethodNames \ {"agentic_selector", "agentic_mouse_action"},
          action : {NoAction}]

ShapeNone == "None"
Shapes == {"AgenticSelectorResponse", "ReadGoogleSheetResponse",
           "GetFullHtmlResponse", "GetSimplifiedHtmlResponse",
           "GetScreenshotResponse"}

\* A faulty variant of ResponseModelArg: every method passes a response model.
ResponseModelArgAlways(c) ==
    CASE c.name = "read_google_sheet" -> "ReadGoogleSheetResponse"
      [] c.name = "get_simplified_html" -> "GetSimplifiedHtmlResponse"
      [] c.name = "get_screenshot" -> "GetScreenshotResponse"
      [] c.name = "agentic_selector" -> "AgenticSelectorResponse"
      [] OTHER -> "GetFullHtmlResponse"

\* The response_model argument the method hands to _run_extension_action.
\* agentic_selector computes one for get_text and get_property but gives it
\* to the AgenticSelectorRequest constructor, not to _run_extension_action.
ResponseModelArg(c) ==
    CASE c.name = "read_google_sheet" -> "ReadGoogleSheetResponse"
      [] c.name = "get_full_html" -> "GetFullHtmlResponse"
      [] c.name = "get_simplified_html" -> "GetSimplifiedHtmlResponse"
      [] c.name = "get_screenshot" -> "GetScreenshotResponse"
      [] OTHER -> ShapeNone

\* request.model_dump(): the two agentic requests run their action encoder.
ModelDump(c) ==
    CASE c.name = "agentic_selector" ->
             dump_agentic_selector_action(c.action)
      [] c.name = "agentic_mouse_action" ->
             dump_agentic_mouse_action(c.action)
      [] OTHER -> Dumped([name |-> c.name])

\* The fields of each response model; all are required.
Fields(shape) ==
    CASE shape = "AgenticSelectorResponse" -> {"value"}
      [] shape = "ReadGoogleSheetResponse" -> {"values"}
      [] shape \in {"GetFullHtmlResponse", "GetSimplifiedHtmlResponse"} -> {"html"}
      [] shape = "GetScreenshotResponse" ->
             {"base64_content", "name", "mime_type", "timestamp"}

\* The `data` strings a server may send, and the JSON object each one denotes
\* (NotJson for a string that is no JSON object).
DataTexts == {"{value: Hello}", "{value: null}", "{html: <p>}", "{values: [[1]]}",
              "{base64_content: AAAA, name: s.png, mime_type: image/png, timestamp: t0}",
              "oops"}

NotJson == [x \in {"!"} |-> PyNone]

JsonOf(text) ==
    CASE text = "{value: Hello}" -> [x \in {"value"} |-> PyStr("Hello")]
      [] text = "{value: null}" -> [x \in {"value"} |-> PyNone]
      [] text = "{html: <p>}" -> [x \in {"html"} |-> PyStr("<p>")]
      [] text = "{values: [[1]]}" -> [x \in {"values"} |-> PyStr("[[1]]")]
      [] text = "{base64_content: AAAA, name: s.png, mime_type: image/png, timestamp: t0}" ->
             [x \in {"base64_content", "name", "mime_type", "timestamp"} |->
                 CASE x = "base64_content" -> PyStr("AAAA")
                   [] x = "name" -> PyStr("s.png")
                   [] x = "mime_type" -> PyStr("image/png")
                   [] x = "timestamp" -> PyStr("t0")]
      [] OTHER -> NotJson

XNone == [kind |-> "return", model |-> "None", fields |-> NotJson]
XModel(shape, f) == [kind |-> "return", model |-> shape, fields |-> f]
XDict(f) == [kind |-> "return", model |-> "dict", fields |-> f]
XRaised(e, msg) == [kind |-> "raise", model |-> e, fields |-> [x \in {"message"} |-> msg]]
XNoResult == [kind |-> "none", model |-> "", fields |-> NotJson]

\* response_model.model_validate_json(data): the object must have every field
\* of the model; only `value` may be null; other keys are ignored.
ModelValidateJson(shape, text) ==
    LET obj == JsonOf(text)
    IN  IF /\ obj # NotJson
           /\ Fields(shape) \subseteq DOMAIN obj
           /\ \A f \in Fields(shape) : obj[f] = PyNone => f = "value"
        THEN XModel(shape, [f \in Fields(shape) |-> obj[f]])
        ELSE XRaised("ValidationError", PyNone)

\* The JSON bodies of a 2xx answer of POST /extension-actions.
ActionBodies ==
    [status : {"success", "error", "done"},
     error : {PyNone, PyStr("X"), PyStr("Y")},
     data : {PyNone} \cup {PyStr(t) : t \in DataTexts}]
NoActionBody == [status |-> "", error |-> PyNone, data |-> PyNone]

\* The HTTP status codes of the answer.
HttpStatuses == {200, 201, 400, 500, 502, 504}

\* A faulty variant of StatusCheck: raise_for_status() comes first.
StatusCheckGeneric(st) ==
    IF st >= 400 THEN XRaised("ClientResponseError", PyNone) ELSE XNoResult

\* Lines 524-526: the gateway timeout, then raise_for_status().
StatusCheck(st) ==
    IF st = 504 THEN XRaised("NaradaTimeoutError", PyNone)
    ELSE IF st >= 400 THEN XRaised("ClientResponseError", PyNone)
    ELSE XNoResult

\* A faulty variant of Interpret: the error status is looked at only when no
\* response model was given.
InterpretShapeFirst(shape, body) ==
    IF body.status \notin {"success", "error"}
    THEN XRaised("ValidationError", PyNone)
    ELSE IF shape # ShapeNone /\ body.data # PyNone
    THEN ModelValidateJson(shape, body.data.s)
    ELSE IF body.status = "error" THEN XRaised("NaradaError", body.error)
    ELSE XNone

\* Lines 529-537: what _run_extension_action makes of the body.
Interpret(shape, body) ==
    IF body.status \notin {"success", "error"}
    THEN XRaised("ValidationError", PyNone)
    ELSE IF body.status = "error" THEN XRaised("NaradaError", body.error)
    ELSE IF shape = ShapeNone THEN XNone
    ELSE IF body.data = PyNone THEN XRaised("AssertionError", PyNone)
    ELSE ModelValidateJson(shape, body.data.s)

\* What the public method makes of _run_extension_action's outcome:
\* agentic_selector turns None into {"value": None}; the others pass it on.
MethodResult(c, r) ==
    IF c.name = "agentic_selector" /\ r = XNone
    THEN XDict([x \in {"value"} |-> PyNone])
    ELSE r

\* The method builds the request and _run_extension_action POSTs it.
RunExtensionAction ==
    /\ xpc = "called"
    /\ responseModel' = ResponseModelArg(call)
    /\ IF ModelDump(call).kind = "raise"
       THEN /\ runResult' = XRaised(ModelDump(call).val, PyNone)
            /\ xresult' = runResult'
            /\ xpc' = "raised"
            /\ UNCHANGED posts
       ELSE /\ posts' = posts + 1
            /\ xpc' = "posted"
            /\ UNCHANGED <<runResult, xresult>>
    /\ UNCHANGED <<call, httpStatus, bodyRead, respJson>>
    /\ UNCHANGED notAction

\* No answer: the connection fails.
ActionPostFails ==
    /\ xpc = "posted"
    /\ runResult' = XRaised("ClientConnectionError", PyNone)
    /\ xresult' = runResult'
    /\ xpc' = "raised"
    /\ UNCHANGED <<call, responseModel, posts, httpStatus, bodyRead, respJson>>
    /\ UNCHANGED notAction

\* The answer's status line and headers arrive.
ActionAnswered(st) ==
    /\ xpc = "posted"
    /\ httpStatus' = st
    /\ IF StatusCheck(st).kind = "raise"
       THEN /\ runResult' = StatusCheck(st)
            /\ xresult' = runResult'
            /\ xpc' = "raised"
       ELSE /\ xpc' = "reading"
            /\ UNCHANGED <<runResult, xresult>>
    /\ UNCHANGED <<call, responseModel, posts, bodyRead, respJson>>
    /\ UNCHANGED notAction

\* await resp.json() yields the body; the rest of the call runs to its end.
ActionBodyRead(body) ==
    /\ xpc = "reading"
    /\ bodyRead' = TRUE
    /\ respJson' = body
    /\ runResult' = Interpret(responseModel, body)
    /\ xresult' = MethodResult(call, runResult')
    /\ xpc' = IF xresult'.kind = "raise" THEN "raised" ELSE "returned"
    /\ UNCHANGED <<call, responseModel, posts, httpStatus>>
    /\ UNCHANGED notAction

ActionNext ==
    \/ RunExtensionAction
    \/ ActionPostFails
    \/ \E st \in HttpStatuses : ActionAnswered(st)
    \/ \E body \in ActionBodies : ActionBodyRead(body)

(***************************************************************************)
(* Part V.  The launch coordinator: Narada._launch_browser with            *)
(* open_and_initialize_browser_window, in its current and its earlier      *)
(* revision, and initialize_in_existing_browser_window.                    *)
(***************************************************************************)

MaxCdpConnectAttempts == 10
MaxSpawns == 2
MaxPages == 2

\* uuid4().hex of the n-th _launch_browser call; "zz" tags another launch's page.
TagOf(n) == CASE n = 1 -> "t1" [] n = 2 -> "t2" [] OTHER -> "t3"
Tags == {TagOf(n) : n \in 1..MaxSpawns}

WindowIds == {"win-1", "win-2"}

\* URLs: f"{initialization_url}?t={tag}" and the side panel URL of a window id.
InitUrl(t) == [base |-> "initialization_url", q |-> t]
PanelUrl(wid) == [base |-> "sidepanel.html", q |-> wid]
BlankUrl == [base |-> "about:blank", q |-> ""]
Urls == {InitUrl(t) : t \in Tags \cup {"zz", ""}}
        \cup {PanelUrl(w) : w \in WindowIds} \cup {BlankUrl}

\* context.pages, as the set of the open pages' URLs: the coordinator tells
\* pages apart by URL only.
PageSets == {ps \in SUBSET Urls : Cardinality(ps) <= MaxPages}

NoPage == [base |-> "None", q |-> ""]

\* A faulty variant of FindPage: the query string is not compared.
FindPageAnyTag(ps, url) ==
    IF \E p \in ps : p.base = url.base
    THEN CHOOSE p \in ps : p.base = url.base
    ELSE NoPage

\* next((p for p in context.pages if p.url == url), None).
FindPage(ps, url) ==
    IF \E p \in ps : p = url
    THEN CHOOSE p \in ps : p = url
    ELSE NoPage

\* The errors a non-interactive readiness wait raises.
WaitErrors == {"NaradaTimeoutError", "NaradaUnsupportedBrowserError",
               "NaradaExtensionMissingError",
               "NaradaExtensionUnauthenticatedError",
               "NaradaInitializationError"}

LNoResult == [kind |-> "none", err |-> "", pid |-> 0, windowId |-> ""]
LReturned(pid, wid) == [kind |-> "return", err |-> "", pid |-> pid, windowId |-> wid]
LRaised(e) == [kind |-> "raise", err |-> e, pid |-> 0, windowId |-> ""]

Raises(e) == lresult' = LRaised(e) /\ lpc' = "raised"

\* A faulty variant of RetryOrGiveUp: the last attempt does not raise.
RetryAlways ==
    /\ attempt' = attempt + 1
    /\ connected' = FALSE
    /\ slept' = 3
    /\ lpc' = "connect"
    /\ UNCHANGED lresult

\* The end of an iteration that did not break: the last attempt raises
\* NaradaTimeoutError, any other closes the connection and sleeps 3 seconds.
RetryOrGiveUp ==
    IF attempt = MaxCdpConnectAttempts - 1
    THEN /\ Raises("NaradaTimeoutError")
         /\ connected' = TRUE
         /\ UNCHANGED <<attempt, slept>>
    ELSE /\ attempt' = attempt + 1
         /\ connected' = FALSE
         /\ slept' = 3
         /\ lpc' = "connect"
         /\ UNCHANGED lresult

\* The browser process is created; a new tag is drawn for this launch.
SpawnBrowser ==
    /\ lpc = "start"
    /\ mode = "spawn"
    /\ spawned < MaxSpawns
    /\ spawned' = spawned + 1
    /\ tag' = TagOf(spawned')
    /\ attempt' = 0
    /\ slept' = IF rev = "current" THEN 2 ELSE slept
    /\ lpc' = "connect"
    /\ launchUrl' = IF proxy = "auth" THEN BlankUrl ELSE InitUrl(tag')
    /\ didNav' = FALSE
    /\ plog' = <<>>
    /\ UNCHANGED <<rev, mode, connected, pages, waitedOn, windowId, panelFound,
                   lresult, proxy>>
    /\ UNCHANGED notLaunch

\* connect_over_cdp raises.
ConnectFails ==
    /\ lpc = "connect"
    /\ IF attempt = MaxCdpConnectAttempts - 1
       THEN /\ Raises("PlaywrightError")
            /\ UNCHANGED <<attempt, slept>>
       ELSE /\ attempt' = attempt + 1
            /\ slept' = IF rev = "current" THEN 2 ELSE 3
            /\ UNCHANGED <<lpc, lresult>>
    /\ UNCHANGED <<rev, mode, tag, spawned, connected, pages, waitedOn, windowId,
                   panelFound>>
    /\ UNCHANGED proxyVars
    /\ UNCHANGED notLaunch

\* did_initial_navigation = True, after the interceptor is detached.
\* A faulty variant of MarkNavigated: the flag is not set.
MarkNavigatedNever == UNCHANGED didNav

MarkNavigated == didNav' = TRUE

\* connect_over_cdp succeeds and context.pages is ps. The current revision
\* first sets up proxy authentication when it is needed and not yet done, and
\* otherwise looks for the tagged page at once; the earlier one has no break
\* in its connect loop and looks for the page after the last attempt. A
\* browser launched on about:blank shows no page of this launch's tag before
\* the navigation.
ConnectSucceeds(ps) ==
    /\ lpc = "connect"
    /\ (proxy = "auth" /\ ~didNav) => InitUrl(tag) \notin ps
    /\ pages' = ps
    /\ LET page == FindPage(ps, InitUrl(tag))
       IN  CASE proxy = "auth" /\ ~didNav ->
                    /\ lpc' = "installing"
                    /\ connected' = TRUE
                    /\ UNCHANGED <<attempt, waitedOn, slept, lresult>>
             [] rev = "earlier" /\ attempt < MaxCdpConnectAttempts - 1 ->
                    /\ attempt' = attempt + 1
                    /\ connected' = TRUE
                    /\ UNCHANGED <<lpc, waitedOn, slept, lresult>>
             [] rev = "earlier" /\ attempt = MaxCdpConnectAttempts - 1
                        /\ page = NoPage ->
                    /\ Raises("RuntimeError")
                    /\ connected' = TRUE
                    /\ UNCHANGED <<attempt, waitedOn, slept>>
             [] rev = "current" /\ page = NoPage ->
                    /\ RetryOrGiveUp
                    /\ UNCHANGED waitedOn
             [] OTHER ->
                    /\ lpc' = "waiting"
                    /\ connected' = TRUE
                    /\ waitedOn' = waitedOn \cup {[tag |-> tag, url |-> page]}
                    /\ UNCHANGED <<attempt, slept, lresult>>
    /\ UNCHANGED <<rev, mode, tag, spawned, windowId, panelFound>>
    /\ UNCHANGED proxyVars
    /\ UNCHANGED notLaunch

\* _setup_proxy_authentication_browser_level returns: the Fetch domain is
\* enabled and the handlers are registered. context.pages[0] is then told to
\* go to the tagged URL; with no page open the index raises.
InterceptorInstalled ==
    /\ lpc = "installing"
    /\ IF pages = {}
       THEN /\ Raises("IndexError")
            /\ plog' = Append(plog, "install")
       ELSE /\ lpc' = "navigating"
            /\ plog' = plog \o <<"install", "goto">>
            /\ UNCHANGED lresult
    /\ UNCHANGED <<rev, mode, tag, attempt, spawned, connected, pages, waitedOn,
                   windowId, panelFound, slept, proxy, launchUrl, didNav>>
    /\ UNCHANGED notLaunch

\* goto() returns: the page p0 that was context.pages[0] now shows the tagged
\* URL; detach() of the interceptor's session is called.
NavigationCompletes(p0) ==
    /\ lpc = "navigating"
    /\ p0 \in pages
    /\ pages' = (pages \ {p0}) \cup {InitUrl(tag)}
    /\ plog' = plog \o <<"loaded", "detach">>
    /\ lpc' = "detaching"
    /\ UNCHANGED <<rev, mode, tag, attempt, spawned, connected, waitedOn,
                   windowId, panelFound, slept, lresult, proxy, launchUrl, didNav>>
    /\ UNCHANGED notLaunch

\* The session setup, goto() or detach() raises: nothing in _launch_browser
\* catches it.
ProxyStepRaises ==
    /\ lpc \in {"installing", "navigating", "detaching"}
    /\ Raises("PlaywrightError")
    /\ UNCHANGED <<rev, mode, tag, attempt, spawned, connected, pages, waitedOn,
                   windowId, panelFound, slept>>
    /\ UNCHANGED proxyVars
    /\ UNCHANGED notLaunch

\* detach() returns; the flag is set and the iteration looks for the tagged
\* page among context.pages.
InterceptorDetached ==
    /\ lpc = "detaching"
    /\ MarkNavigated
    /\ IF FindPage(pages, InitUrl(tag)) = NoPage
       THEN /\ RetryOrGiveUp
            /\ UNCHANGED waitedOn
       ELSE /\ lpc' = "waiting"
            /\ waitedOn' = waitedOn \cup {[tag |-> tag, url |-> InitUrl(tag)]}
            /\ UNCHANGED <<attempt, connected, slept, lresult>>
    /\ UNCHANGED <<rev, mode, tag, spawned, pages, windowId, panelFound, proxy,
                   launchUrl, plog>>
    /\ UNCHANGED notLaunch

\* The readiness wait returns window id wid. The existing-window path then
\* closes its connection to open a second one.
WaitResolves(wid) ==
    /\ lpc = "waiting"
    /\ windowId' = wid
    /\ IF mode = "attach"
       THEN lpc' = "reconnect" /\ connected' = FALSE
       ELSE lpc' = "resolved" /\ UNCHANGED connected
    /\ UNCHANGED <<rev, mode, tag, attempt, spawned, pages, waitedOn, panelFound,
                   slept, lresult>>
    /\ UNCHANGED proxyVars
    /\ UNCHANGED notLaunch

\* _launch_browser looks for the side panel page among context.pages, now ps.
\* Found: the result is returned. Not found: the current revision ends the
\* iteration, the earlier one raises _ShouldRetryCreateProcess, on which
\* open_and_initialize_browser_window closes the connection, terminates the
\* process and calls _launch_browser again.
PanelLookup(ps) ==
    /\ lpc = "resolved"
    /\ pages' = ps
    /\ panelFound' = (FindPage(ps, PanelUrl(windowId)) # NoPage)
    /\ CASE panelFound' ->
                /\ lpc' = "returned"
                /\ lresult' = LReturned(spawned, windowId)
                /\ UNCHANGED <<attempt, connected, slept>>
         [] ~panelFound' /\ rev = "current" -> RetryOrGiveUp
         [] OTHER ->
                /\ lpc' = "start"
                /\ connected' = FALSE
                /\ UNCHANGED <<attempt, slept, lresult>>
    /\ UNCHANGED <<rev, mode, tag, spawned, waitedOn, windowId>>
    /\ UNCHANGED proxyVars
    /\ UNCHANGED notLaunch

\* The readiness wait raises.
WaitRaises(e) ==
    /\ lpc = "waiting"
    /\ Raises(e)
    /\ UNCHANGED <<rev, mode, tag, attempt, spawned, connected, pages, waitedOn,
                   windowId, panelFound, slept>>
    /\ UNCHANGED proxyVars
    /\ UNCHANGED notLaunch

\* A faulty variant of AttachRejectsProxy: the check follows the connection.
AttachRejectsProxyConnected ==
    /\ lpc = "start"
    /\ mode = "attach"
    /\ proxy # "none"
    /\ connected' = TRUE
    /\ Raises("ValueError")
    /\ UNCHANGED <<rev, mode, tag, attempt, spawned, pages, waitedOn, windowId,
                   panelFound, slept>>
    /\ UNCHANGED proxyVars
    /\ UNCHANGED notLaunch

\* initialize_in_existing_browser_window with a proxy configuration raises
\* ValueError before it connects.
AttachRejectsProxy ==
    /\ lpc = "start"
    /\ mode = "attach"
    /\ proxy # "none"
    /\ Raises("ValueError")
    /\ UNCHANGED <<rev, mode, tag, attempt, spawned, connected, pages, waitedOn,
                   windowId, panelFound, slept>>
    /\ UNCHANGED proxyVars
    /\ UNCHANGED notLaunch

\* initialize_in_existing_browser_window connects to the running browser,
\* which shows pages ps, and opens the tagged page in a new tab.
AttachConnects(ps) ==
    /\ lpc = "start"
    /\ mode = "attach"
    /\ proxy = "none"
    /\ connected' = TRUE
    /\ tag' = TagOf(1)
    /\ pages' = ps \cup {InitUrl(tag')}
    /\ waitedOn' = waitedOn \cup {[tag |-> tag', url |-> InitUrl(tag')]}
    /\ lpc' = "waiting"
    /\ UNCHANGED <<rev, mode, attempt, spawned, windowId, panelFound, slept,
                   lresult>>
    /\ UNCHANGED proxyVars
    /\ UNCHANGED notLaunch

\* Either connect_over_cdp of initialize_in_existing_browser_window raises.
AttachConnectFails ==
    /\ lpc \in {"start", "reconnect"}
    /\ mode = "attach"
    /\ proxy = "none"
    /\ Raises("PlaywrightError")
    /\ UNCHANGED <<rev, mode, tag, attempt, spawned, connected, pages, waitedOn,
                   windowId, panelFound, slept>>
    /\ UNCHANGED proxyVars
    /\ UNCHANGED notLaunch

\* The second connection sees pages ps; next() without a default ends the
\* coroutine with RuntimeError (StopIteration) when the side panel is not there.
Reconnects(ps) ==
    /\ lpc = "reconnect"
    /\ connected' = TRUE
    /\ pages' = ps
    /\ panelFound' = (FindPage(ps, PanelUrl(windowId)) # NoPage)
    /\ IF panelFound'
       THEN lpc' = "returned" /\ lresult' = LReturned(0, windowId)
       ELSE Raises("RuntimeError")
    /\ UNCHANGED <<rev, mode, tag, attempt, spawned, waitedOn, windowId, slept>>
    /\ UNCHANGED proxyVars
    /\ UNCHANGED notLaunch

LaunchNext ==
    \/ SpawnBrowser
    \/ ConnectFails
    \/ \E ps \in PageSets : ConnectSucceeds(ps)
    \/ \E wid \in WindowIds : WaitResolves(wid)
    \/ \E ps \in PageSets : PanelLookup(ps)
    \/ \E e \in WaitErrors : WaitRaises(e)
    \/ \E ps \in PageSets : AttachConnects(ps)
    \/ AttachConnectFails
    \/ \E ps \in PageSets : Reconnects(ps)
    \/ InterceptorInstalled
    \/ \E p0 \in Urls : NavigationCompletes(p0)
    \/ ProxyStepRaises
    \/ InterceptorDetached
    \/ AttachRejectsProxy

(***************************************************************************)
(* Part VI.  The readiness wait: Narada._wait_for_browser_window_id, which *)
(* runs the silent waiter once or, in interactive mode, inside the loop of *)
(* _wait_for_browser_window_id_interactively.                              *)
(***************************************************************************)

MaxWaits == 4

\* What one run of _wait_for_browser_window_id_silently raises besides a
\* driver error: the four handshake errors, the timeout, and the assertion
\* of assert_never().
HandshakeErrors == {"NaradaUnsupportedBrowserError", "NaradaExtensionMissingError",
                    "NaradaExtensionUnauthenticatedError",
                    "NaradaInitializationError"}
SilentErrors == HandshakeErrors \cup {"NaradaTimeoutError", "AssertionError"}

\* The two errors the interactive loop has an except clause for.
Prompted == {"NaradaExtensionMissingError", "NaradaExtensionUnauthenticatedError"}

\* The message console.input shows for a caught error.
PromptFor(e) ==
    IF e = "NaradaExtensionMissingError" THEN "prompt: extension not installed"
    ELSE "prompt: sign in to the extension"

Prompts == {PromptFor(e) : e \in Prompted}

ExitProgram == [kind |-> "exit", val |-> "1"]

Waits == Len(SelectSeq(rlog, LAMBDA op : op = "wait"))

\* A faulty variant of PageClosed: the driver error is left to the caller.
PageClosedRaised ==
    /\ rresult' = Raise("PlaywrightError")
    /\ rpc' = "raised"
    /\ UNCHANGED rlog

\* `except PlaywrightError:` of the interactive loop: a message, then
\* sys.exit(1).
PageClosed ==
    /\ rresult' = ExitProgram
    /\ rpc' = "exited"
    /\ rlog' = Append(rlog, "print")

\* The silent waiter returns the window id.
SilentReturns(wid) ==
    /\ rpc = "waiting"
    /\ rresult' = Return(wid)
    /\ rpc' = "returned"
    /\ UNCHANGED <<interactive, closedAt, rlog>>
    /\ UNCHANGED notReadiness

\* The silent waiter raises e: the interactive loop prompts for the two errors
\* it catches (console.input waits for Enter); every other error, and every
\* error in non-interactive mode, leaves _wait_for_browser_window_id.
SilentRaises(e) ==
    /\ rpc = "waiting"
    /\ IF interactive /\ e \in Prompted
       THEN /\ rpc' = "prompting"
            /\ rlog' = Append(rlog, PromptFor(e))
            /\ UNCHANGED rresult
       ELSE /\ rpc' = "raised"
            /\ rresult' = Raise(e)
            /\ UNCHANGED rlog
    /\ UNCHANGED <<interactive, closedAt>>
    /\ UNCHANGED notReadiness

\* The driver finds the page closed during the silent wait.
SilentFindsPageClosed ==
    /\ rpc = "waiting"
    /\ closedAt' = "wait"
    /\ IF interactive
       THEN PageClosed
       ELSE /\ rresult' = Raise("PlaywrightError")
            /\ rpc' = "raised"
            /\ UNCHANGED rlog
    /\ UNCHANGED interactive
    /\ UNCHANGED notReadiness

\* A faulty variant of OperatorAcknowledges: the next wait starts at once.
OperatorAcknowledgesNoReload ==
    /\ rpc = "prompting"
    /\ Waits < MaxWaits
    /\ rlog' = rlog \o <<"enter", "wait">>
    /\ rpc' = "waiting"
    /\ UNCHANGED <<interactive, closedAt, rresult>>
    /\ UNCHANGED notReadiness

\* The operator presses Enter; page.bring_to_front() is called.
OperatorAcknowledges ==
    /\ rpc = "prompting"
    /\ rlog' = rlog \o <<"enter", "bring_to_front">>
    /\ rpc' = "fronting"
    /\ UNCHANGED <<interactive, closedAt, rresult>>
    /\ UNCHANGED notReadiness

\* bring_to_front() is done; asyncio.sleep(0.1).
BroughtToFront ==
    /\ rpc = "fronting"
    /\ rlog' = Append(rlog, "sleep")
    /\ rpc' = "sleeping"
    /\ UNCHANGED <<interactive, closedAt, rresult>>
    /\ UNCHANGED notReadiness

\* The sleep is over; page.reload() is called.
ReloadStarts ==
    /\ rpc = "sleeping"
    /\ rlog' = Append(rlog, "reload")
    /\ rpc' = "reloading"
    /\ UNCHANGED <<interactive, closedAt, rresult>>
    /\ UNCHANGED notReadiness

\* reload() is done; the loop starts the next silent wait.
Reloaded ==
    /\ rpc = "reloading"
    /\ Waits < MaxWaits
    /\ rlog' = Append(rlog, "wait")
    /\ rpc' = "waiting"
    /\ UNCHANGED <<interactive, closedAt, rresult>>
    /\ UNCHANGED notReadiness

\* bring_to_front() or reload() finds the page closed.
PageOperationFindsPageClosed ==
    /\ rpc \in {"fronting", "reloading"}
    /\ closedAt' = IF rpc = "fronting" THEN "bring_to_front" ELSE "reload"
    /\ PageClosed
    /\ UNCHANGED interactive
    /\ UNCHANGED notReadiness

ReadinessNext ==
    \/ \E wid \in WindowIds : SilentReturns(wid)
    \/ \E e \in SilentErrors : SilentRaises(e)
    \/ SilentFindsPageClosed
    \/ OperatorAcknowledges
    \/ BroughtToFront
    \/ ReloadStarts
    \/ Reloaded
    \/ PageOperationFindsPageClosed

(***************************************************************************)
(* Part VII.  Window handles: BaseBrowserWindow and its three subclasses,  *)
(* several handles issuing requests concurrently.                          *)
(***************************************************************************)

HandleNames == {"h1", "h2"}
HandleKinds == {"local", "remote", "managed"}

\* A request as the service sees it; the stop request of cleanup() has no
\* browserWindowId key.
NoKey == "absent"
Request(h, endpoint, wid) ==
    [handle |-> h, endpoint |-> endpoint, browserWindowId |-> wid]

\* A faulty variant of browser_window_id: one id shared by all handles.
browser_window_id_shared(h) == hwid[CHOOSE g \in HandleNames : TRUE]

\* The property browser_window_id: return self._browser_window_id.
browser_window_id(h) == hwid[h]

\* dispatch_request (also through agent) builds its body and posts it to
\* /remote-dispatch.
DispatchSubmits(h) ==
    /\ hpc[h] = "idle"
    /\ sent' = sent \cup {Request(h, "remote-dispatch", browser_window_id(h))}
    /\ hpc' = [hpc EXCEPT ![h] = "dispatching"]
    /\ UNCHANGED <<hkind, hwid, hbrowser>>
    /\ UNCHANGED notHandles

\* _run_extension_action builds its body and posts it to /extension-actions.
ActionSubmits(h) ==
    /\ hpc[h] = "idle"
    /\ sent' = sent \cup {Request(h, "extension-actions", browser_window_id(h))}
    /\ hpc' = [hpc EXCEPT ![h] = "acting"]
    /\ UNCHANGED <<hkind, hwid, hbrowser>>
    /\ UNCHANGED notHandles

\* LocalBrowserWindow.reinitialize finds the side panel page of its window id
\* and reloads it.
Reinitialize(h) ==
    /\ hpc[h] = "idle"
    /\ hkind[h] = "local"
    /\ hpc' = [hpc EXCEPT ![h] = "reloading"]
    /\ UNCHANGED <<hkind, hwid, hbrowser, sent>>
    /\ UNCHANGED notHandles

\* ManagedBrowserWindow.connect: returns at once when already connected,
\* otherwise connects and sets _playwright, _browser, _context and _page.
Connect(h) ==
    /\ hpc[h] = "idle"
    /\ hkind[h] = "managed"
    /\ IF hbrowser[h]
       THEN UNCHANGED hpc
       ELSE hpc' = [hpc EXCEPT ![h] = "connecting"]
    /\ UNCHANGED <<hkind, hwid, hbrowser, sent>>
    /\ UNCHANGED notHandles

\* ManagedBrowserWindow.cleanup posts the stop request with the session id.
Cleanup(h) ==
    /\ hpc[h] = "idle"
    /\ hkind[h] = "managed"
    /\ sent' = sent \cup {Request(h, "stop-managed-browser-session", NoKey)}
    /\ hpc' = [hpc EXCEPT ![h] = "stopping"]
    /\ UNCHANGED <<hkind, hwid, hbrowser>>
    /\ UNCHANGED notHandles

\* The operation of h in progress ends, by a return or by an exception:
\* connect leaves _browser set when it got that far, cleanup clears it.
OperationEnds(h, ok) ==
    /\ hpc[h] # "idle"
    /\ hpc' = [hpc EXCEPT ![h] = "idle"]
    /\ hbrowser' = [hbrowser EXCEPT ![h] =
                        CASE hpc[h] = "connecting" -> ok
                          [] hpc[h] = "stopping" -> FALSE
                          [] OTHER -> @]
    /\ UNCHANGED <<hkind, hwid, sent>>
    /\ UNCHANGED notHandles

HandlesNext ==
    \E h \in HandleNames :
        \/ DispatchSubmits(h)
        \/ ActionSubmits(h)
        \/ Reinitialize(h)
        \/ Connect(h)
        \/ Cleanup(h)
        \/ \E ok \in BOOLEAN : OperationEnds(h, ok)

(***************************************************************************)
(* Part VIII.  Entering the client context: Narada.__aenter__ with         *)
(* _fetch_sdk_config and _validate_sdk_config.                             *)
(***************************************************************************)

MaxVersionPart == 2

\* Release versions major.minor, compared as packaging.version.Version does:
\* part by part, as numbers.
Versions == (0..MaxVersionPart) \X (0..MaxVersionPart)

\* A faulty variant of VersionLess: the minimum itself is refused.
VersionLessOrEqual(a, b) ==
    \/ a[1] < b[1]
    \/ a[1] = b[1] /\ a[2] <= b[2]

VersionLess(a, b) ==
    \/ a[1] < b[1]
    \/ a[1] = b[1] /\ a[2] < b[2]

\* The bodies GET /sdk/config can answer with: not a valid _SdkConfig, a
\* config with no entry for this package, a config with a minimum version.
ConfigNone == [kind |-> "None", min |-> <<0, 0>>]
ConfigWithout == [kind |-> "no-package", min |-> <<0, 0>>]
ConfigOf(m) == [kind |-> "config", min |-> m]
ConfigInvalid == [kind |-> "invalid", min |-> <<0, 0>>]
ConfigBodies == {ConfigInvalid, ConfigWithout} \cup {ConfigOf(m) : m \in Versions}

ConfigStatuses == {200, 401, 500}

\* _fetch_sdk_config after the response arrived: None unless resp.ok and the
\* body validates.
FetchedConfig(st, body) ==
    IF st >= 400 \/ body = ConfigInvalid THEN ConfigNone ELSE body

\* _validate_sdk_config and the rest of __aenter__ up to the driver's start.
ValidateSdkConfig(config) ==
    CASE config = ConfigNone ->
             gpc' = "starting" /\ UNCHANGED gresult
      [] config = ConfigWithout ->
             gpc' = "raised" /\ gresult' = Raise("KeyError")
      [] config.kind = "config" /\ VersionLess(version, config.min) ->
             gpc' = "raised" /\ gresult' = Raise("RuntimeError")
      [] OTHER ->
             gpc' = "starting" /\ UNCHANGED gresult

\* The request for the SDK config raises.
FetchFails ==
    /\ gpc = "fetching"
    /\ sdkConfig' = ConfigNone
    /\ ValidateSdkConfig(sdkConfig')
    /\ UNCHANGED <<version, playwright>>
    /\ UNCHANGED notEnter

\* The request is answered with status st and body.
FetchAnswered(st, body) ==
    /\ gpc = "fetching"
    /\ sdkConfig' = FetchedConfig(st, body)
    /\ ValidateSdkConfig(sdkConfig')
    /\ UNCHANGED <<version, playwright>>
    /\ UNCHANGED notEnter

\* async_playwright().__aenter__() returns: the context is entered.
DriverStarts ==
    /\ gpc = "starting"
    /\ playwright' = TRUE
    /\ gpc' = "entered"
    /\ gresult' = Return("self")
    /\ UNCHANGED <<version, sdkConfig>>
    /\ UNCHANGED notEnter

\* The driver fails to start.
DriverFails ==
    /\ gpc = "starting"
    /\ gpc' = "raised"
    /\ gresult' = Raise("PlaywrightError")
    /\ UNCHANGED <<version, sdkConfig, playwright>>
    /\ UNCHANGED notEnter

EnterNext ==
    \/ FetchFails
    \/ \E st \in ConfigStatuses, body \in ConfigBodies : FetchAnswered(st, body)
    \/ DriverStarts
    \/ DriverFails

(***************************************************************************)
(* Part IX.  Opening a cloud browser window:                               *)
(* Narada.open_and_initialize_cloud_browser_window and                     *)
(* _initialize_cloud_browser_window.                                       *)
(***************************************************************************)

MaxAttempts == 5

SessionIds == {"s1", "s2"}

\* What _wait_for_browser_window_id raises into the cloud readiness loop
\* besides NaradaExtensionMissingError: in interactive mode the loop of
\* Part VI keeps the two prompted errors and turns a driver error into an
\* exit.
CloudWaitErrors ==
    IF cinteractive
    THEN SilentErrors \ Prompted
    ELSE (SilentErrors \ {"NaradaExtensionMissingError"}) \cup {"PlaywrightError"}

StopRequest(sid) == [session_id |-> sid, status |-> "failed"]

\* `except Exception:` around _initialize_cloud_browser_window: the stop
\* request is posted while the error is held.
InitializationFails(e) ==
    /\ cerr' = e
    /\ stops' = Append(stops, StopRequest(csession))
    /\ cpc' = "stopping"
    /\ UNCHANGED cresult

\* The create request raises or is answered with an error status.
CreateFails(e) ==
    /\ cpc = "creating"
    /\ cpc' = "raised"
    /\ cresult' = Raise(e)
    /\ UNCHANGED <<cinteractive, csession, cattempt, cwid, cerr, stops>>
    /\ UNCHANGED notCloud

\* The backend created session sid; connect_over_cdp is called.
CreateAnswered(sid) ==
    /\ cpc = "creating"
    /\ csession' = sid
    /\ cpc' = "connecting"
    /\ UNCHANGED <<cinteractive, cattempt, cwid, cerr, stops, cresult>>
    /\ UNCHANGED notCloud

\* The connection is made; the first page is sent to the login URL.
CloudConnected ==
    /\ cpc = "connecting"
    /\ cpc' = "navigating"
    /\ UNCHANGED <<cinteractive, csession, cattempt, cwid, cerr, stops, cresult>>
    /\ UNCHANGED notCloud

\* goto() returns; the readiness loop starts.
LoginLoaded ==
    /\ cpc = "navigating"
    /\ cpc' = "waiting"
    /\ cattempt' = 0
    /\ UNCHANGED <<cinteractive, csession, cwid, cerr, stops, cresult>>
    /\ UNCHANGED notCloud

\* connect_over_cdp or goto() raises.
CloudDriverRaises ==
    /\ cpc \in {"connecting", "navigating"}
    /\ InitializationFails(IF cpc = "connecting" THEN "PlaywrightError"
                           ELSE "PlaywrightTimeoutError")
    /\ UNCHANGED <<cinteractive, csession, cattempt, cwid>>
    /\ UNCHANGED notCloud

\* The readiness wait returns wid. The loop has no break: every attempt but
\* the last is followed by another wait.
CloudWaitReturns(wid) ==
    /\ cpc = "waiting"
    /\ cwid' = wid
    /\ IF cattempt = MaxAttempts - 1
       THEN /\ cpc' = "returned"
            /\ cresult' = Return(wid)
            /\ UNCHANGED cattempt
       ELSE /\ cattempt' = cattempt + 1
            /\ UNCHANGED <<cpc, cresult>>
    /\ UNCHANGED <<cinteractive, csession, cerr, stops>>
    /\ UNCHANGED notCloud

\* The readiness wait raises NaradaExtensionMissingError (non-interactive
\* mode only): re-raised on the last attempt, else a sleep of one second.
CloudWaitMissing ==
    /\ cpc = "waiting"
    /\ ~cinteractive
    /\ IF cattempt = MaxAttempts - 1
       THEN /\ InitializationFails("NaradaExtensionMissingError")
            /\ UNCHANGED cattempt
       ELSE /\ cpc' = "sleeping"
            /\ UNCHANGED <<cattempt, cerr, stops, cresult>>
    /\ UNCHANGED <<cinteractive, csession, cwid>>
    /\ UNCHANGED notCloud

\* The sleep is over; the next attempt waits.
CloudSleepEnds ==
    /\ cpc = "sleeping"
    /\ cattempt' = cattempt + 1
    /\ cpc' = "waiting"
    /\ UNCHANGED <<cinteractive, csession, cwid, cerr, stops, cresult>>
    /\ UNCHANGED notCloud

\* The readiness wait raises another error.
CloudWaitRaises(e) ==
    /\ cpc = "waiting"
    /\ e \in CloudWaitErrors
    /\ InitializationFails(e)
    /\ UNCHANGED <<cinteractive, csession, cattempt, cwid>>
    /\ UNCHANGED notCloud

\* Interactive mode, the page is found closed: sys.exit(1) raises SystemExit,
\* which is not an Exception and passes the handler.
CloudWaitExits ==
    /\ cpc = "waiting"
    /\ cinteractive
    /\ cpc' = "exited"
    /\ cresult' = ExitProgram
    /\ UNCHANGED <<cinteractive, csession, cattempt, cwid, cerr, stops>>
    /\ UNCHANGED notCloud

\* The stop request is answered or raises; either is only logged, and the
\* bare raise re-raises the held error.
StopEnds ==
    /\ cpc = "stopping"
    /\ cpc' = "raised"
    /\ cresult' = Raise(cerr)
    /\ UNCHANGED <<cinteractive, csession, cattempt, cwid, cerr, stops>>
    /\ UNCHANGED notCloud

CloudNext ==
    \/ \E e \in {"RuntimeError", "ClientError"} : CreateFails(e)
    \/ \E sid \in SessionIds : CreateAnswered(sid)
    \/ CloudConnected
    \/ LoginLoaded
    \/ CloudDriverRaises
    \/ \E wid \in WindowIds : CloudWaitReturns(wid)
    \/ CloudWaitMissing
    \/ CloudSleepEnds
    \/ \E e \in SilentErrors \cup {"PlaywrightError"} : CloudWaitRaises(e)
    \/ CloudWaitExits
    \/ StopEnds

(***************************************************************************)
(* Part X.  The download tracker: CDPDownloadHandler with its handlers     *)
(* _on_download_begin and _on_download_progress, which run on the event    *)
(* loop whenever no waiter is running or the waiter is suspended, and its  *)
(* waiters wait_for_download and wait_for_all.                             *)
(***************************************************************************)

MaxTicks == 2

Guids == {"g1", "g2"}
ReceivedBytes == {10, 20}
TerminalStates == {"completed", "canceled", "interrupted"}

Absent == [state |-> "absent", received |-> 0]

\* suggestedFilename of a download.
FileOf(g) == IF g = "g1" THEN "a.csv" ELSE "b.csv"

DNoResult == [kind |-> "none", guid |-> "", size |-> 0]
DNone == [kind |-> "None", guid |-> "", size |-> 0]
DownloadInfo(g, size) == [kind |-> "DownloadInfo", guid |-> g, size |-> size]
DList(infos) == [kind |-> "list", infos |-> infos]

\* What the handlers write, what the waiter writes, what neither writes.
trackerVars == <<downloads, order, done_events, transfers, fresh, doneAt>>
waiterVars == <<dlpc, caller, dnow, ddeadline, waitStart, target, gathered,
                polled, dresult>>
handlerConfig == <<timed, dtimeout, early, hasCallback, hasSession>>

\* The property has_pending_downloads.
has_pending_downloads ==
    \E i \in 1..Len(order) : downloads[order[i]].state = "inProgress"

\* The first loop of wait_for_download: the first guid in insertion order
\* whose state is inProgress; "" if none.
RECURSIVE FirstInProgress(_)
FirstInProgress(i) ==
    IF i > Len(order) THEN ""
    ELSE IF downloads[order[i]].state = "inProgress" THEN order[i]
         ELSE FirstInProgress(i + 1)

\* The guid the polling loop's scan selects: the first in insertion order
\* whose done event is not set and whose state is inProgress; "" if none.
RECURSIVE ScanFrom(_)
ScanFrom(i) ==
    IF i > Len(order) THEN ""
    ELSE IF /\ done_events[order[i]] # "set"
            /\ downloads[order[i]].state = "inProgress"
         THEN order[i]
         ELSE ScanFrom(i + 1)

Scan == ScanFrom(1)

\* One iteration of the polling loop at time t: a target is found and the
\* wait on its done event begins, or the deadline has passed and None is
\* returned, or the loop sleeps 0.5 s.
PollAt(t) ==
    LET found == Scan
    IN  CASE found # "" ->
                 /\ target' = found
                 /\ waitStart' = t
                 /\ dlpc' = "waiting"
                 /\ UNCHANGED dresult
          [] found = "" /\ timed /\ t >= ddeadline' ->
                 /\ dlpc' = "returned"
                 /\ dresult' = DNone
                 /\ UNCHANGED <<target, waitStart>>
          [] OTHER ->
                 /\ dlpc' = "sleeping"
                 /\ UNCHANGED <<target, waitStart, dresult>>

\* wait_for_download is called: a download in progress becomes the target at
\* once, otherwise the polling loop starts.
WaitForDownload ==
    /\ dlpc = "idle"
    /\ caller' = "wait_for_download"
    /\ IF FirstInProgress(1) # ""
       THEN /\ target' = FirstInProgress(1)
            /\ waitStart' = dnow
            /\ dlpc' = "waiting"
            /\ UNCHANGED <<ddeadline, polled, dresult>>
       ELSE /\ polled' = TRUE
            /\ ddeadline' = IF timed THEN dnow + dtimeout ELSE ddeadline
            /\ PollAt(dnow)
    /\ UNCHANGED <<dnow, gathered>>
    /\ UNCHANGED <<trackerVars, handlerConfig>>
    /\ UNCHANGED notDownload

\* asyncio.sleep(0.5) is over: the loop scans again.
PollSleepEnds ==
    /\ dlpc = "sleeping"
    /\ dnow <= MaxTicks
    /\ dnow' = dnow + 1
    /\ UNCHANGED ddeadline
    /\ PollAt(dnow')
    /\ UNCHANGED <<caller, gathered, polled>>
    /\ UNCHANGED <<trackerVars, handlerConfig>>
    /\ UNCHANGED notDownload

\* Browser.downloadWillBegin for g: _on_download_begin.
OnDownloadBegin(g) ==
    /\ dlpc \in {"idle", "sleeping", "waiting", "gathering"}
    /\ g \notin early
    /\ downloads[g] = Absent
    /\ downloads' = [downloads EXCEPT ![g] = [state |-> "inProgress", received |-> 0]]
    /\ order' = Append(order, g)
    /\ done_events' = [done_events EXCEPT ![g] = "clear"]
    /\ fresh' = IF dlpc = "idle" THEN fresh ELSE fresh \cup {g}
    /\ UNCHANGED <<transfers, doneAt>>
    /\ UNCHANGED <<waiterVars, handlerConfig>>
    /\ UNCHANGED notDownload

\* A faulty variant of Schedules: one of the two is enough.
SchedulesEither == hasCallback \/ hasSession

\* `if self._on_download_complete and self._session_id`.
Schedules == hasCallback /\ hasSession

\* Browser.downloadProgress for g: _on_download_progress. The browser sends
\* it for a download that has begun and has not ended; a download that began
\* before the listeners were attached has no entry.
OnDownloadProgress(g, state, received) ==
    /\ dlpc \in {"idle", "sleeping", "waiting", "gathering"}
    /\ \/ downloads[g].state = "inProgress"
       \/ g \in early /\ doneAt[g] = -1
    /\ downloads' = IF downloads[g] # Absent
                    THEN [downloads EXCEPT ![g] = [state |-> state, received |-> received]]
                    ELSE downloads
    /\ done_events' = IF state \in TerminalStates /\ done_events[g] # "absent"
                      THEN [done_events EXCEPT ![g] = "set"]
                      ELSE done_events
    /\ transfers' = IF state = "completed" /\ Schedules
                    THEN Append(transfers,
                                [guid |-> g,
                                 filename |-> IF downloads[g] # Absent THEN FileOf(g)
                                              ELSE g])
                    ELSE transfers
    /\ doneAt' = IF state = "completed" THEN [doneAt EXCEPT ![g] = dnow] ELSE doneAt
    /\ UNCHANGED <<order, fresh>>
    /\ UNCHANGED <<waiterVars, handlerConfig>>
    /\ UNCHANGED notDownload

\* Time passes while the waiter waits on the done event.
WaitTick ==
    /\ dlpc = "waiting"
    /\ done_events[target] # "set"
    /\ IF timed THEN dnow - waitStart < dtimeout ELSE dnow <= MaxTicks
    /\ dnow' = dnow + 1
    /\ UNCHANGED <<dlpc, caller, ddeadline, waitStart, target, gathered, polled,
                   dresult>>
    /\ UNCHANGED <<trackerVars, handlerConfig>>
    /\ UNCHANGED notDownload

\* The done event of the target is set: DownloadInfo for a completed
\* download, None for any other terminal state.
DoneEventWakes ==
    /\ dlpc = "waiting"
    /\ done_events[target] = "set"
    /\ dlpc' = "returned"
    /\ dresult' = IF downloads[target].state = "completed"
                  THEN DownloadInfo(target, downloads[target].received)
                  ELSE DNone
    /\ UNCHANGED <<caller, dnow, ddeadline, waitStart, target, gathered, polled>>
    /\ UNCHANGED <<trackerVars, handlerConfig>>
    /\ UNCHANGED notDownload

\* asyncio.wait_for times out: None.
DoneWaitTimesOut ==
    /\ dlpc = "waiting"
    /\ timed
    /\ done_events[target] # "set"
    /\ dnow - waitStart >= dtimeout
    /\ dlpc' = "returned"
    /\ dresult' = DNone
    /\ UNCHANGED <<caller, dnow, ddeadline, waitStart, target, gathered, polled>>
    /\ UNCHANGED <<trackerVars, handlerConfig>>
    /\ UNCHANGED notDownload

\* A faulty variant of CompletedFrom: every finished download is listed.
RECURSIVE FinishedFrom(_)
FinishedFrom(i) ==
    IF i > Len(order) THEN <<>>
    ELSE IF downloads[order[i]].state \in TerminalStates
         THEN <<DownloadInfo(order[i], downloads[order[i]].received)>>
              \o FinishedFrom(i + 1)
         ELSE FinishedFrom(i + 1)

\* The result list of wait_for_all: a DownloadInfo for every entry of
\* _downloads whose state is completed, in insertion order.
RECURSIVE CompletedFrom(_)
CompletedFrom(i) ==
    IF i > Len(order) THEN <<>>
    ELSE IF downloads[order[i]].state = "completed"
         THEN <<DownloadInfo(order[i], downloads[order[i]].received)>>
              \o CompletedFrom(i + 1)
         ELSE CompletedFrom(i + 1)

\* wait_for_all is called: the empty list at once when nothing is tracked,
\* otherwise the done events that exist now are gathered.
WaitForAll ==
    /\ dlpc = "idle"
    /\ caller' = "wait_for_all"
    /\ IF order = <<>>
       THEN /\ dlpc' = "returned"
            /\ dresult' = DList(<<>>)
            /\ UNCHANGED <<gathered, waitStart>>
       ELSE /\ gathered' = {g \in Guids : done_events[g] # "absent"}
            /\ waitStart' = dnow
            /\ dlpc' = "gathering"
            /\ UNCHANGED dresult
    /\ UNCHANGED <<dnow, ddeadline, target, polled>>
    /\ UNCHANGED <<trackerVars, handlerConfig>>
    /\ UNCHANGED notDownload

\* Time passes while wait_for_all waits on the gathered events.
GatherTick ==
    /\ dlpc = "gathering"
    /\ \E g \in gathered : done_events[g] # "set"
    /\ IF timed THEN dnow - waitStart < dtimeout ELSE dnow <= MaxTicks
    /\ dnow' = dnow + 1
    /\ UNCHANGED <<dlpc, caller, ddeadline, waitStart, target, gathered, polled,
                   dresult>>
    /\ UNCHANGED <<trackerVars, handlerConfig>>
    /\ UNCHANGED notDownload

\* Every gathered event is set, or asyncio.wait_for timed out, which is only
\* logged: the completed downloads are returned.
GatherEnds ==
    /\ dlpc = "gathering"
    /\ \/ \A g \in gathered : done_events[g] = "set"
       \/ timed /\ dnow - waitStart >= dtimeout
    /\ dlpc' = "returned"
    /\ dresult' = DList(CompletedFrom(1))
    /\ UNCHANGED <<caller, dnow, ddeadline, waitStart, target, gathered, polled>>
    /\ UNCHANGED <<trackerVars, handlerConfig>>
    /\ UNCHANGED notDownload

DownloadNext ==
    \/ WaitForDownload
    \/ PollSleepEnds
    \/ \E g \in Guids : OnDownloadBegin(g)
    \/ \E g \in Guids, state \in TerminalStates \cup {"inProgress"},
          received \in ReceivedBytes : OnDownloadProgress(g, state, received)
    \/ WaitTick
    \/ DoneEventWakes
    \/ DoneWaitTimesOut
    \/ WaitForAll
    \/ GatherTick
    \/ GatherEnds

(***************************************************************************)
(* Part XI.  ManagedBrowserWindow.connect and cleanup, called one after    *)
(* the other on one window.  A field holds 0 for None, otherwise the       *)
(* number of the driver or connection the object belongs to.               *)
(***************************************************************************)

MaxCalls == 4

NoCall == [op |-> "none", kind |-> "none"]
CallEnded(op, kind) == [op |-> op, kind |-> kind]

\* What the stop-session POST can do: answer ok with success true or false,
\* answer with an error status, or raise.
StopOutcomes == {"success", "failure", "status", "raises"}

fields == <<m_playwright, m_browser, m_context, m_page>>
counters == <<drivers, connections, mstops>>

\* connect(): `if self._browser is not None: return`, otherwise start the
\* driver.
ConnectCall ==
    /\ mpc = "idle"
    /\ mcalls < MaxCalls
    /\ mcalls' = mcalls + 1
    /\ IF m_browser # 0
       THEN mlast' = CallEnded("connect", "return") /\ UNCHANGED mpc
       ELSE mpc' = "starting" /\ UNCHANGED mlast
    /\ UNCHANGED <<fields, counters>>
    /\ UNCHANGED notManaged

\* `self._playwright = await async_playwright().start()` returns.
ManagedDriverStarts ==
    /\ mpc = "starting"
    /\ drivers' = drivers + 1
    /\ m_playwright' = drivers + 1
    /\ mpc' = "dialing"
    /\ UNCHANGED <<m_browser, m_context, m_page, connections, mstops, mcalls, mlast>>
    /\ UNCHANGED notManaged

\* async_playwright().start() raises: nothing was assigned.
ManagedDriverFails ==
    /\ mpc = "starting"
    /\ mpc' = "idle"
    /\ mlast' = CallEnded("connect", "raise")
    /\ UNCHANGED <<fields, counters, mcalls>>
    /\ UNCHANGED notManaged

\* connect_over_cdp returns: _browser is assigned; _context is the first
\* existing context or awaits new_context(); _page is the first existing
\* page of the context or awaits new_page(); then the 3 s sleep.
CdpConnects(hasContext, hasPage) ==
    /\ mpc = "dialing"
    /\ connections' = connections + 1
    /\ m_browser' = connections + 1
    /\ IF hasContext
       THEN /\ m_context' = connections + 1
            /\ IF hasPage
               THEN m_page' = connections + 1 /\ mpc' = "settling"
               ELSE UNCHANGED m_page /\ mpc' = "newPage"
       ELSE UNCHANGED <<m_context, m_page>> /\ mpc' = "newContext"
    /\ UNCHANGED <<m_playwright, drivers, mstops, mcalls, mlast>>
    /\ UNCHANGED notManaged

\* connect_over_cdp raises: the driver started above stays in _playwright.
CdpFails ==
    /\ mpc = "dialing"
    /\ mpc' = "idle"
    /\ mlast' = CallEnded("connect", "raise")
    /\ UNCHANGED <<fields, counters, mcalls>>
    /\ UNCHANGED notManaged

\* new_context() returns; a new context has no page.
NewContextReturns ==
    /\ mpc = "newContext"
    /\ m_context' = m_browser
    /\ mpc' = "newPage"
    /\ UNCHANGED <<m_playwright, m_browser, m_page, counters, mcalls, mlast>>
    /\ UNCHANGED notManaged

\* new_page() returns.
NewPageReturns ==
    /\ mpc = "newPage"
    /\ m_page' = m_browser
    /\ mpc' = "settling"
    /\ UNCHANGED <<m_playwright, m_browser, m_context, counters, mcalls, mlast>>
    /\ UNCHANGED notManaged

\* new_context() or new_page() raises.
NewObjectRaises ==
    /\ mpc \in {"newContext", "newPage"}
    /\ mpc' = "idle"
    /\ mlast' = CallEnded("connect", "raise")
    /\ UNCHANGED <<fields, counters, mcalls>>
    /\ UNCHANGED notManaged

\* `await asyncio.sleep(3)` ends and connect() returns.
SettleEnds ==
    /\ mpc = "settling"
    /\ mpc' = "idle"
    /\ mlast' = CallEnded("connect", "return")
    /\ UNCHANGED <<fields, counters, mcalls>>
    /\ UNCHANGED notManaged

\* cleanup(): post the stop-session request first.
CleanupCall ==
    /\ mpc = "idle"
    /\ mcalls < MaxCalls
    /\ mcalls' = mcalls + 1
    /\ mstops' = mstops + 1
    /\ mpc' = "posting"
    /\ UNCHANGED <<fields, drivers, connections, mlast>>
    /\ UNCHANGED notManaged

\* Where cleanup() goes after the browser part: `if self._playwright:`.
AfterBrowser(driver) == IF driver # 0 THEN "stoppingDriver" ELSE "idle"

\* The POST ends: every outcome is only logged (`except Exception` included);
\* then `if self._browser:` awaits close(), else `if self._playwright:`
\* awaits stop(), else cleanup() returns.
StopAnswered(answered) ==
    /\ mpc = "posting"
    /\ mpc' = IF m_browser # 0 THEN "closing" ELSE AfterBrowser(m_playwright)
    /\ mlast' = IF mpc' = "idle" THEN CallEnded("cleanup", "return") ELSE mlast
    /\ UNCHANGED <<fields, counters, mcalls>>
    /\ UNCHANGED notManaged

\* `await self._browser.close()` returns or raises (swallowed);
\* `self._browser = None`.  _context and _page are not assigned.
BrowserCloseEnds(ok) ==
    /\ mpc = "closing"
    /\ m_browser' = 0
    /\ mpc' = AfterBrowser(m_playwright)
    /\ mlast' = IF mpc' = "idle" THEN CallEnded("cleanup", "return") ELSE mlast
    /\ UNCHANGED <<m_playwright, m_context, m_page, counters, mcalls>>
    /\ UNCHANGED notManaged

\* `await self._playwright.stop()` returns or raises (swallowed);
\* `self._playwright = None`; cleanup() returns.
DriverStopEnds(ok) ==
    /\ mpc = "stoppingDriver"
    /\ m_playwright' = 0
    /\ mpc' = "idle"
    /\ mlast' = CallEnded("cleanup", "return")
    /\ UNCHANGED <<m_browser, m_context, m_page, counters, mcalls>>
    /\ UNCHANGED notManaged

ManagedNext ==
    \/ ConnectCall
    \/ ManagedDriverStarts
    \/ ManagedDriverFails
    \/ \E hasContext, hasPage \in BOOLEAN : CdpConnects(hasContext, hasPage)
    \/ CdpFails
    \/ NewContextReturns
    \/ NewPageReturns
    \/ NewObjectRaises
    \/ SettleEnds
    \/ CleanupCall
    \/ \E answered \in StopOutcomes : StopAnswered(answered)
    \/ \E ok \in BOOLEAN : BrowserCloseEnds(ok)
    \/ \E ok \in BOOLEAN : DriverStopEnds(ok)

(***************************************************************************)
(* Part XII.  Two _launch_browser calls of the current revision running    *)
(* concurrently (asyncio.gather) against one browser instance.  Each call  *)
(* has created its browser process, which opens one window with one page   *)
(* in the shared default context; the window of call c is window c.       *)
(***************************************************************************)

Launches == {1, 2}
\* initialization_page is None: the call has no page to wait on.
NoWindow == 0

\* The tagged initialization URL of call c, and the window id that the page
\* of window w publishes.
CallUrl(c) == InitUrl(TagOf(c))
WindowIdOf(w) == IF w = 1 THEN "win-1" ELSE "win-2"

\* The windows whose page is open.
OpenTabs == {w \in Launches : tabs[w] # NoPage}

\* The pages p of context.pages with p.url == tagged_initialization_url.
TaggedTabs(c) == {w \in OpenTabs : tabs[w] = CallUrl(c)}


\* The window of call c appears in the browser: on the tagged URL, or on
\* about:blank when the proxy needs authentication.
WindowOpens(c) ==
    /\ tabs[c] = NoPage
    /\ tabs' = [tabs EXCEPT ![c] = IF qproxy THEN BlankUrl ELSE CallUrl(c)]
    /\ UNCHANGED <<qproxy, qpc, qattempt, qnav, qwait, qresult>>
    /\ UNCHANGED notConcurrent

\* The end of an iteration of call c that did not break.
CallRetryOrGiveUp(c) ==
    IF qattempt[c] = MaxCdpConnectAttempts - 1
    THEN /\ qresult' = [qresult EXCEPT ![c] = LRaised("NaradaTimeoutError")]
         /\ qpc' = [qpc EXCEPT ![c] = "raised"]
         /\ UNCHANGED qattempt
    ELSE /\ qattempt' = [qattempt EXCEPT ![c] = @ + 1]
         /\ qpc' = [qpc EXCEPT ![c] = "connect"]
         /\ UNCHANGED qresult

\* Call c looks for its tagged page and starts the readiness wait on it, or
\* ends the iteration when there is none.
Locate(c) ==
    IF TaggedTabs(c) = {}
    THEN CallRetryOrGiveUp(c) /\ UNCHANGED qwait
    ELSE /\ qwait' = [qwait EXCEPT ![c] = CHOOSE w \in TaggedTabs(c) : TRUE]
         /\ qpc' = [qpc EXCEPT ![c] = "waiting"]
         /\ UNCHANGED <<qattempt, qresult>>

\* connect_over_cdp of call c raises.
CallConnectFails(c) ==
    /\ qpc[c] = "connect"
    /\ IF qattempt[c] = MaxCdpConnectAttempts - 1
       THEN /\ qresult' = [qresult EXCEPT ![c] = LRaised("PlaywrightError")]
            /\ qpc' = [qpc EXCEPT ![c] = "raised"]
            /\ UNCHANGED qattempt
       ELSE /\ qattempt' = [qattempt EXCEPT ![c] = @ + 1]
            /\ UNCHANGED <<qpc, qresult>>
    /\ UNCHANGED <<qproxy, tabs, qnav, qwait>>
    /\ UNCHANGED notConcurrent

\* connect_over_cdp of call c returns: with proxy authentication still to
\* do, the interceptor is set up and context.pages[0] is told to go to the
\* tagged URL (IndexError with no page open); otherwise the call locates
\* its page.
CallConnects(c) ==
    /\ qpc[c] = "connect"
    /\ IF qproxy /\ ~qnav[c]
       THEN /\ IF OpenTabs = {}
               THEN /\ qresult' = [qresult EXCEPT ![c] = LRaised("IndexError")]
                    /\ qpc' = [qpc EXCEPT ![c] = "raised"]
               ELSE /\ qpc' = [qpc EXCEPT ![c] = "navigating"]
                    /\ UNCHANGED qresult
            /\ UNCHANGED <<qattempt, qwait>>
       ELSE Locate(c)
    /\ UNCHANGED <<qproxy, tabs, qnav>>
    /\ UNCHANGED notConcurrent

\* goto() of call c returns: the page that was context.pages[0], the page of
\* window w, now shows the call's tagged URL; detach() is awaited.
CallNavigates(c, w) ==
    /\ qpc[c] = "navigating"
    /\ w \in OpenTabs
    /\ tabs' = [tabs EXCEPT ![w] = CallUrl(c)]
    /\ qpc' = [qpc EXCEPT ![c] = "detaching"]
    /\ UNCHANGED <<qproxy, qattempt, qnav, qwait, qresult>>
    /\ UNCHANGED notConcurrent

\* detach() of call c returns: did_initial_navigation = True, then the call
\* locates its page.
CallDetaches(c) ==
    /\ qpc[c] = "detaching"
    /\ qnav' = [qnav EXCEPT ![c] = TRUE]
    /\ Locate(c)
    /\ UNCHANGED <<qproxy, tabs>>
    /\ UNCHANGED notConcurrent

\* The readiness wait of call c returns the window id published by the page
\* it ran on; with the side panel page of that id open the loop breaks and
\* the call returns, otherwise the iteration ends.
CallWaitReturns(c, panelOpen) ==
    /\ qpc[c] = "waiting"
    /\ IF panelOpen
       THEN /\ qresult' = [qresult EXCEPT
                               ![c] = LReturned(c, WindowIdOf(qwait[c]))]
            /\ qpc' = [qpc EXCEPT ![c] = "returned"]
            /\ UNCHANGED qattempt
       ELSE CallRetryOrGiveUp(c)
    /\ UNCHANGED <<qproxy, tabs, qnav, qwait>>
    /\ UNCHANGED notConcurrent

\* The readiness wait of call c raises.
CallWaitRaises(c) ==
    /\ qpc[c] = "waiting"
    /\ \E e \in WaitErrors :
           qresult' = [qresult EXCEPT ![c] = LRaised(e)]
    /\ qpc' = [qpc EXCEPT ![c] = "raised"]
    /\ UNCHANGED <<qproxy, tabs, qattempt, qnav, qwait>>
    /\ UNCHANGED notConcurrent

ConcurrentNext ==
    \E c \in Launches :
        \/ WindowOpens(c)
        \/ CallConnectFails(c)
        \/ CallConnects(c)
        \/ \E w \in Launches : CallNavigates(c, w)
        \/ CallDetaches(c)
        \/ \E panelOpen \in BOOLEAN : CallWaitReturns(c, panelOpen)
        \/ CallWaitRaises(c)

(***************************************************************************)
(* Initial states.                                                         *)
(***************************************************************************)

\* dispatch_request is not running.
DispatchIdle ==
    /\ dpc = "off"
    /\ timeout = 0
    /\ outputSchema = FALSE
    /\ now = 0
    /\ deadline = 0
    /\ requestId = ""
    /\ pendingSeen = 0
    /\ log = <<>>
    /\ answer = NoBody
    /\ fault = ""
    /\ result = NoResult
    /\ agentResult = [kind |-> "none", err |-> ""]

\* No encoder is running.
EncodeIdle ==
    /\ epc = "off"
    /\ plain = [fn |-> "", arg |-> ""]
    /\ wire = NotDumped

\* No extension action is running.
ActionIdle ==
    /\ xpc = "off"
    /\ call = [name |-> "", action |-> NoAction]
    /\ responseModel = ShapeNone
    /\ posts = 0
    /\ httpStatus = 0
    /\ bodyRead = FALSE
    /\ respJson = NoActionBody
    /\ runResult = XNoResult
    /\ xresult = XNoResult

\* No launch is running.
LaunchIdle ==
    /\ lpc = "off"
    /\ rev = "current"
    /\ mode = "spawn"
    /\ tag = ""
    /\ attempt = 0
    /\ spawned = 0
    /\ connected = FALSE
    /\ pages = {}
    /\ waitedOn = {}
    /\ windowId = ""
    /\ panelFound = FALSE
    /\ slept = 0
    /\ lresult = LNoResult
    /\ proxy = "none"
    /\ launchUrl = NoPage
    /\ didNav = FALSE
    /\ plog = <<>>

\* No readiness wait of Part VI is running.
ReadinessIdle ==
    /\ rpc = "off"
    /\ interactive = FALSE
    /\ closedAt = ""
    /\ rlog = <<>>
    /\ rresult = NoOutcome

\* No window handle of Part VII exists.
HandlesIdle ==
    /\ hkind = <<>>
    /\ hwid = <<>>
    /\ hpc = <<>>
    /\ hbrowser = <<>>
    /\ sent = {}

\* No client context of Part VIII is being entered.
EnterIdle ==
    /\ gpc = "off"
    /\ version = <<0, 0>>
    /\ sdkConfig = [kind |-> "None", min |-> <<0, 0>>]
    /\ playwright = FALSE
    /\ gresult = NoOutcome

\* No cloud browser window of Part IX is being opened.
CloudIdle ==
    /\ cpc = "off"
    /\ cinteractive = FALSE
    /\ csession = ""
    /\ cattempt = 0
    /\ cwid = ""
    /\ cerr = ""
    /\ stops = <<>>
    /\ cresult = NoOutcome

\* No download handler of Part X is in use.
DownloadIdle ==
    /\ dlpc = "off"
    /\ caller = ""
    /\ timed = FALSE
    /\ dtimeout = 0
    /\ dnow = 0
    /\ ddeadline = 0
    /\ waitStart = 0
    /\ downloads = <<>>
    /\ order = <<>>
    /\ done_events = <<>>
    /\ target = ""
    /\ gathered = {}
    /\ polled = FALSE
    /\ early = {}
    /\ hasCallback = FALSE
    /\ hasSession = FALSE
    /\ transfers = <<>>
    /\ fresh = {}
    /\ doneAt = <<>>
    /\ dresult = [kind |-> "none", guid |-> "", size |-> 0]

\* No managed window of Part XI exists.
ManagedIdle ==
    /\ mpc = "off"
    /\ m_playwright = 0
    /\ m_browser = 0
    /\ m_context = 0
    /\ m_page = 0
    /\ drivers = 0
    /\ connections = 0
    /\ mstops = 0
    /\ mcalls = 0
    /\ mlast = [op |-> "none", kind |-> "none"]

\* No concurrent launch of Part XII is running.
ConcurrentIdle ==
    /\ qproxy = FALSE
    /\ tabs = <<>>
    /\ qpc = <<>>
    /\ qattempt = <<>>
    /\ qnav = <<>>
    /\ qwait = <<>>
    /\ qresult = <<>>

RaceInit ==
    /\ DispatchIdle
    /\ EncodeIdle
    /\ ActionIdle
    /\ LaunchIdle
    /\ ReadinessIdle
    /\ HandlesIdle
    /\ EnterIdle
    /\ CloudIdle
    /\ DownloadIdle
    /\ ManagedIdle
    /\ ConcurrentIdle
    /\ legacy \in BOOLEAN
    /\ textContent = TextUnread
    /\ task = [m \in Markers |-> IF m \in Selectors(legacy) THEN "running" ELSE "unstarted"]
    /\ threw = {}
    /\ wpc = "waiting"
    /\ done = {}
    /\ decider = "none"
    /\ outcome = NoOutcome

\* No readiness wait is running.
RaceIdle ==
    /\ legacy = FALSE
    /\ textContent = TextUnread
    /\ task = [m \in Markers |-> "unstarted"]
    /\ threw = {}
    /\ wpc = "idle"
    /\ done = {}
    /\ decider = "none"
    /\ outcome = NoOutcome

DispatchInit ==
    /\ RaceIdle
    /\ EncodeIdle
    /\ ActionIdle
    /\ LaunchIdle
    /\ ReadinessIdle
    /\ HandlesIdle
    /\ EnterIdle
    /\ CloudIdle
    /\ DownloadIdle
    /\ ManagedIdle
    /\ ConcurrentIdle
    /\ dpc = "idle"
    /\ timeout \in 0..MaxTimeout
    /\ outputSchema \in BOOLEAN
    /\ now \in 0..MaxStart
    /\ deadline = 0
    /\ requestId = ""
    /\ pendingSeen = 0
    /\ log = <<>>
    /\ answer = NoBody
    /\ fault = ""
    /\ result = NoResult
    /\ agentResult = [kind |-> "none", err |-> ""]

EncodeInit ==
    /\ RaceIdle
    /\ DispatchIdle
    /\ ActionIdle
    /\ LaunchIdle
    /\ ReadinessIdle
    /\ HandlesIdle
    /\ EnterIdle
    /\ CloudIdle
    /\ DownloadIdle
    /\ ManagedIdle
    /\ ConcurrentIdle
    /\ epc = "input"
    /\ plain \in PlainValues
    /\ wire = NotDumped

ActionInit ==
    /\ RaceIdle
    /\ DispatchIdle
    /\ EncodeIdle
    /\ LaunchIdle
    /\ ReadinessIdle
    /\ HandlesIdle
    /\ EnterIdle
    /\ CloudIdle
    /\ DownloadIdle
    /\ ManagedIdle
    /\ ConcurrentIdle
    /\ xpc = "called"
    /\ call \in Calls
    /\ responseModel = ShapeNone
    /\ posts = 0
    /\ httpStatus = 0
    /\ bodyRead = FALSE
    /\ respJson = NoActionBody
    /\ runResult = XNoResult
    /\ xresult = XNoResult

LaunchInit ==
    /\ RaceIdle
    /\ DispatchIdle
    /\ EncodeIdle
    /\ ActionIdle
    /\ ReadinessIdle
    /\ HandlesIdle
    /\ EnterIdle
    /\ CloudIdle
    /\ DownloadIdle
    /\ ManagedIdle
    /\ ConcurrentIdle
    /\ lpc = "start"
    /\ rev \in {"current", "earlier"}
    /\ mode \in IF rev = "current" THEN {"spawn", "attach"} ELSE {"spawn"}
    /\ tag = ""
    /\ attempt = 0
    /\ spawned = 0
    /\ connected = FALSE
    /\ pages = {}
    /\ waitedOn = {}
    /\ windowId = ""
    /\ panelFound = FALSE
    /\ slept = 0
    /\ lresult = LNoResult
    /\ proxy \in IF rev = "current" THEN {"none", "open", "auth"} ELSE {"none"}
    /\ launchUrl = NoPage
    /\ didNav = FALSE
    /\ plog = <<>>

ReadinessInit ==
    /\ RaceIdle
    /\ DispatchIdle
    /\ EncodeIdle
    /\ ActionIdle
    /\ LaunchIdle
    /\ HandlesIdle
    /\ EnterIdle
    /\ CloudIdle
    /\ DownloadIdle
    /\ ManagedIdle
    /\ ConcurrentIdle
    /\ rpc = "waiting"
    /\ interactive \in BOOLEAN
    /\ closedAt = ""
    /\ rlog = <<"wait">>
    /\ rresult = NoOutcome

HandlesInit ==
    /\ RaceIdle
    /\ DispatchIdle
    /\ EncodeIdle
    /\ ActionIdle
    /\ LaunchIdle
    /\ ReadinessIdle
    /\ EnterIdle
    /\ CloudIdle
    /\ DownloadIdle
    /\ ManagedIdle
    /\ ConcurrentIdle
    /\ hkind \in [HandleNames -> HandleKinds]
    /\ hwid \in [HandleNames -> WindowIds]
    /\ hpc = [h \in HandleNames |-> "idle"]
    /\ hbrowser = [h \in HandleNames |-> FALSE]
    /\ sent = {}

EnterInit ==
    /\ RaceIdle
    /\ DispatchIdle
    /\ EncodeIdle
    /\ ActionIdle
    /\ LaunchIdle
    /\ ReadinessIdle
    /\ HandlesIdle
    /\ CloudIdle
    /\ DownloadIdle
    /\ ManagedIdle
    /\ ConcurrentIdle
    /\ gpc = "fetching"
    /\ version \in Versions
    /\ sdkConfig = ConfigNone
    /\ playwright = FALSE
    /\ gresult = NoOutcome

CloudInit ==
    /\ RaceIdle
    /\ DispatchIdle
    /\ EncodeIdle
    /\ ActionIdle
    /\ LaunchIdle
    /\ ReadinessIdle
    /\ HandlesIdle
    /\ EnterIdle
    /\ DownloadIdle
    /\ ManagedIdle
    /\ ConcurrentIdle
    /\ cpc = "creating"
    /\ cinteractive \in BOOLEAN
    /\ csession = ""
    /\ cattempt = 0
    /\ cwid = ""
    /\ cerr = ""
    /\ stops = <<>>
    /\ cresult = NoOutcome

DownloadInit ==
    /\ RaceIdle
    /\ DispatchIdle
    /\ EncodeIdle
    /\ ActionIdle
    /\ LaunchIdle
    /\ ReadinessIdle
    /\ HandlesIdle
    /\ EnterIdle
    /\ CloudIdle
    /\ ManagedIdle
    /\ ConcurrentIdle
    /\ dlpc = "idle"
    /\ caller = ""
    /\ timed \in BOOLEAN
    /\ dtimeout \in 1..MaxTicks
    /\ dnow = 0
    /\ ddeadline = 0
    /\ waitStart = 0
    /\ downloads = [g \in Guids |-> Absent]
    /\ order = <<>>
    /\ done_events = [g \in Guids |-> "absent"]
    /\ target = ""
    /\ gathered = {}
    /\ polled = FALSE
    /\ early \in SUBSET Guids
    /\ hasCallback \in BOOLEAN
    /\ hasSession \in BOOLEAN
    /\ transfers = <<>>
    /\ fresh = {}
    /\ doneAt = [g \in Guids |-> -1]
    /\ dresult = DNoResult

ManagedInit ==
    /\ RaceIdle
    /\ DispatchIdle
    /\ EncodeIdle
    /\ ActionIdle
    /\ LaunchIdle
    /\ ReadinessIdle
    /\ HandlesIdle
    /\ EnterIdle
    /\ CloudIdle
    /\ DownloadIdle
    /\ ConcurrentIdle
    /\ mpc = "idle"
    /\ m_playwright = 0
    /\ m_browser = 0
    /\ m_context = 0
    /\ m_page = 0
    /\ drivers = 0
    /\ connections = 0
    /\ mstops = 0
    /\ mcalls = 0
    /\ mlast = NoCall

ConcurrentInit ==
    /\ RaceIdle
    /\ DispatchIdle
    /\ EncodeIdle
    /\ ActionIdle
    /\ LaunchIdle
    /\ ReadinessIdle
    /\ HandlesIdle
    /\ EnterIdle
    /\ CloudIdle
    /\ DownloadIdle
    /\ ManagedIdle
    /\ qproxy \in BOOLEAN
    /\ tabs = [c \in Launches |-> NoPage]
    /\ qpc = [c \in Launches |-> "connect"]
    /\ qattempt = [c \in Launches |-> 0]
    /\ qnav = [c \in Launches |-> FALSE]
    /\ qwait = [c \in Launches |-> NoWindow]
    /\ qresult = [c \in Launches |-> LNoResult]

(***************************************************************************)
(* Specifications.                                                         *)
(***************************************************************************)

SpecRace == RaceInit /\ [][RaceNext]_vars

SpecDispatch == DispatchInit /\ [][DispatchNext]_vars

SpecEncode == EncodeInit /\ [][EncodeNext]_vars

SpecAction == ActionInit /\ [][ActionNext]_vars

SpecLaunch == LaunchInit /\ [][LaunchNext]_vars

SpecReadiness == ReadinessInit /\ [][ReadinessNext]_vars

SpecHandles == HandlesInit /\ [][HandlesNext]_vars

SpecEnter == EnterInit /\ [][EnterNext]_vars

SpecCloud == CloudInit /\ [][CloudNext]_vars

SpecDownload == DownloadInit /\ [][DownloadNext]_vars

SpecManaged == ManagedInit /\ [][ManagedNext]_vars

SpecConcurrent == ConcurrentInit /\ [][ConcurrentNext]_vars

(***************************************************************************)
(* Properties of the selector race (checked under SpecRace).               *)
(***************************************************************************)

\* The error each indicator stands for, as the error taxonomy states it.
ExpectedError(m) ==
    CASE m = "unsupported_browser" -> "NaradaUnsupportedBrowserError"
      [] m = "extension_missing" -> "NaradaExtensionMissingError"
      [] m = "extension_unauthenticated" -> "NaradaExtensionUnauthenticatedError"
      [] m = "initialization_error" -> "NaradaInitializationError"

Cancelled(m) == task[m] \in {"cancelling", "cancelled"}

\* C1: when exactly one marker wait had completed, with an element, at the moment
\* asyncio.wait returned, the finished waiter reports that marker's outcome (the
\* text read from the window-id element for ready, the marker's typed error
\* otherwise) and every other wait task has been cancelled: none is left running.
RaceSingleWinner ==
    \A w \in Markers :
        (wpc = "done" /\ done = {w} /\ task[w] = "elem") =>
            /\ \A m \in Selectors(legacy) \ {w} : Cancelled(m)
            /\ \A m \in Markers : task[m] # "running"
            /\ decider = w
            /\ w # "ready" => outcome = Raise(ExpectedError(w))
            /\ (w = "ready" /\ textContent.tag = "str") =>
                   outcome = Return(textContent.s)

RaceSingleWinnerWitness ==
    /\ wpc = "done"
    /\ ~legacy
    /\ done = {"ready"}
    /\ task["ready"] = "elem"
    /\ outcome = Return("win-1")
    /\ task["extension_missing"] = "cancelled"
    /\ task["unsupported_browser"] = "cancelling"

\* C2: if no marker becomes attached (and no wait fails), the waiter finishes by
\* raising NaradaTimeoutError, whichever task timed out first.
RaceTimeoutOutcome ==
    (~legacy /\ wpc = "done" /\ threw = {} /\ \A m \in Markers : task[m] # "elem") =>
        outcome = Raise("NaradaTimeoutError")

\* C3 as stated: a marker wait that throws does not end the race: while the only
\* completed waits are ones that threw, the waiter keeps waiting and no wait is
\* cancelled.
RaceFlakyKeepsRacing ==
    LET completed == {m \in Markers : Completed(task[m])}
    IN  (completed # {} /\ completed \subseteq threw) =>
            /\ wpc = "waiting"
            /\ \A m \in Markers : ~Cancelled(m)

\* C3 as amended: a wait that throws completes its task and thereby ends the race.
\* When the waiter has finished and every task in `done` had thrown, all other
\* waits were cancelled and the waiter raised: the thrown error in the current
\* revision; in the earlier revision (which turns the error into None)
\* NaradaTimeoutError if the window-id wait was among them, else AssertionError.
RaceFlakyEndsRace ==
    (wpc = "done" /\ done # {} /\ done \subseteq threw) =>
        /\ \A m \in Selectors(legacy) \ done : Cancelled(m)
        /\ outcome = IF ~legacy THEN Raise("PlaywrightError")
                     ELSE IF "ready" \in done THEN Raise("NaradaTimeoutError")
                     ELSE Raise("AssertionError")

RaceFlakyEndsRaceWitness ==
    /\ wpc = "done"
    /\ ~legacy
    /\ done = {"extension_missing"}
    /\ threw = {"extension_missing"}
    /\ outcome = Raise("PlaywrightError")
    /\ Cancelled("ready")

\* C4: when the task at which the waiter's loop stops is an indicator task holding
\* an element, the waiter raises that indicator's own typed error (four distinct
\* errors) and returns no window id; a window id is returned only for ready.
RaceTypedErrors ==
    /\ \A m \in ErrorMarkers :
           (wpc = "done" /\ decider = m /\ task[m] = "elem") =>
               outcome = Raise(ExpectedError(m))
    /\ outcome.kind = "return" => decider = "ready"
    /\ \A m1, m2 \in ErrorMarkers : ExpectedError(m1) = ExpectedError(m2) => m1 = m2

RaceTypedErrorsWitness ==
    /\ wpc = "done"
    /\ decider = "extension_unauthenticated"
    /\ task["extension_unauthenticated"] = "elem"
    /\ task["extension_missing"] = "none"
    /\ outcome = Raise("NaradaExtensionUnauthenticatedError")

\* C5: when the ready marker decides and its text content is None or the empty
\* string, the waiter raises NaradaInitializationError; a returned window id is
\* never empty.
RaceWindowIdNeverEmpty ==
    /\ (~legacy /\ outcome.kind = "return") => outcome.val # ""
    /\ (~legacy /\ wpc = "done" /\ decider = "ready" /\ task["ready"] = "elem"
          /\ textContent \in {TextNone, TextStr("")}) =>
           outcome = Raise("NaradaInitializationError")

(***************************************************************************)
(* Properties of dispatch_request (checked under SpecDispatch).            *)
(***************************************************************************)

Count(op) == Cardinality({i \in 1..Len(log) : log[i].op = op})
LastOp == IF log = <<>> THEN "" ELSE log[Len(log)].op

\* C6: a call that returns after k pending answers has issued exactly k+1 GETs and
\* k sleeps, each sleep of 3 seconds and directly after a GET, none after the last
\* GET; it returns the terminal answer, whose content (when not null) carries
\* structuredOutput = the parse of its text if a schema was given, None if not.
\* A terminal answer fails to be returned only when a schema was given and the
\* text does not parse.
DispatchPolling ==
    /\ dpc = "returned" =>
        /\ Count("GET") = pendingSeen + 1
        /\ Count("SLEEP") = pendingSeen
        /\ \A i \in 1..Len(log) :
               log[i].op = "SLEEP" => log[i].arg = 3 /\ log[i - 1].op = "GET"
        /\ LastOp = "GET"
        /\ result.kind = "return"
        /\ result.response.status = answer.status
        /\ answer.status \in {"success", "error", "input-required"}
        /\ result.response.response.tag = answer.response.tag
        /\ result.response.response.text = answer.response.text
        /\ answer.response.tag = "object" =>
               result.response.response.structuredOutput =
                   IF outputSchema THEN model_validate_json(answer.response.text)
                   ELSE SoNone
        /\ result.response.response.structuredOutput # SoInvalid
    /\ (dpc = "raised" /\ fault = "" /\ answer.status \notin {"", "pending"}) =>
        /\ outputSchema
        /\ answer.response.tag = "object"
        /\ model_validate_json(answer.response.text) = SoInvalid

DispatchPollingWitness ==
    /\ dpc = "returned"
    /\ pendingSeen = 2
    /\ Count("GET") = 3
    /\ outputSchema
    /\ result.response.status = "success"
    /\ result.response.response.structuredOutput = SoModel(2)

\* C7: when the loop is left because the clock has reached the deadline (after a
\* sleep that followed a pending answer, or right after the submission), the call
\* raises the agent-timeout error carrying the timeout argument; every agent-timeout
\* error carries it.
DispatchDeadline ==
    /\ (dpc = "raised" /\ requestId # "" /\ LastOp \in {"POST", "SLEEP"}) =>
        /\ result = Raised("NaradaAgentTimeoutError", timeout)
        /\ now >= deadline
        /\ fault = ""
    /\ (dpc = "polling" /\ now >= deadline) => LastOp \in {"POST", "SLEEP"}
    /\ result.err = "NaradaAgentTimeoutError" => result.arg = timeout

DispatchDeadlineWitness ==
    /\ dpc = "raised"
    /\ LastOp = "SLEEP"
    /\ pendingSeen = 2
    /\ answer.status = "pending"
    /\ deadline # timeout
    /\ result = Raised("NaradaAgentTimeoutError", timeout)

\* C8: at most one POST is ever issued, also after it failed; a GET is issued only
\* after the POST, once it has produced a request id.
DispatchAtMostOncePost ==
    /\ Count("POST") <= 1
    /\ Count("GET") > 0 => log[1].op = "POST" /\ requestId \in RequestIds
    /\ (dpc = "raised" /\ requestId = "") => log = <<Post(timeout)>>
    /\ dpc \in {"polling", "getting", "sleeping", "returned"} => requestId \in RequestIds

DispatchAtMostOncePostWitness ==
    /\ dpc = "raised"
    /\ requestId = ""
    /\ fault = "ClientConnectionError"
    /\ log = <<Post(timeout)>>

\* The order of the call's positions.
DispatchOrder ==
    \/ dpc = "idle" /\ dpc' = "submitted"
    \/ dpc = "submitted" /\ dpc' \in {"polling", "raised"}
    \/ dpc = "polling" /\ dpc' \in {"getting", "raised"}
    \/ dpc = "getting" /\ dpc' \in {"sleeping", "returned", "raised"}
    \/ dpc = "sleeping" /\ dpc' = "polling"

\* C9: the call moves idle -> submitted -> polling -> returned or raised; a
\* returned response is never pending and carries the submission's request id;
\* once it has returned or raised, and once a non-pending status was observed,
\* nothing of the call changes and no HTTP request is sent.
DispatchTerminalFinal ==
    /\ [](result.kind = "return" =>
            /\ dpc = "returned"
            /\ result.response.status \in {"success", "error", "input-required"}
            /\ result.response.requestId = requestId)
    /\ [][/\ dpc' # dpc => DispatchOrder
          /\ dpc \in {"returned", "raised"} =>
                 UNCHANGED <<dpc, timeout, outputSchema, now, deadline,
                             requestId, pendingSeen, log, answer, fault,
                             result>>
          /\ answer.status \notin {"", "pending"} => log' = log]_vars

DispatchTerminalFinalWitness ==
    /\ dpc = "returned"
    /\ pendingSeen = 1
    /\ result.response.status = "error"
    /\ result.response.requestId = "req-2"

\* C10 as stated: when the submission fails, the error the HTTP layer raised is
\* the error the caller gets.
DispatchSubmitErrorUnchanged ==
    (dpc = "raised" /\ requestId = "" /\ fault # "") => result.err = fault

\* C10 as amended: a failed submission surfaces unchanged when it is a connection
\* failure or a non-2xx status; a transport timeout of the POST is raised as the
\* agent-timeout error carrying the timeout argument.
DispatchSubmitErrorMapping ==
    (dpc = "raised" /\ requestId = "") =>
        /\ fault # ""
        /\ fault # "asyncio.TimeoutError" => result = Raised(fault, 0)
        /\ fault = "asyncio.TimeoutError" =>
               result = Raised("NaradaAgentTimeoutError", timeout)

DispatchSubmitErrorMappingWitness ==
    /\ dpc = "raised"
    /\ requestId = ""
    /\ fault = "ClientResponseError"
    /\ result = Raised("ClientResponseError", 0)

\* C11 as stated: whatever transport error a poll GET raises, a transport
\* timeout or a connection failure, the caller gets the agent-timeout error and
\* never the raw transport error.
DispatchPollErrorsMapped ==
    (dpc = "raised" /\ LastOp = "GET"
        /\ fault \in {"asyncio.TimeoutError", "ClientConnectionError"}) =>
        result.err = "NaradaAgentTimeoutError"

\* C11 as amended: of the errors a poll GET raises, only the transport timeout
\* is raised as the agent-timeout error (carrying the timeout argument); a
\* connection failure or a non-2xx status reaches the caller as raised.
DispatchPollErrorMapping ==
    (dpc = "raised" /\ LastOp = "GET" /\ fault # "") =>
        /\ requestId \in RequestIds
        /\ fault = "asyncio.TimeoutError" =>
               result = Raised("NaradaAgentTimeoutError", timeout)
        /\ fault # "asyncio.TimeoutError" =>
               /\ fault \in TransportErrors
               /\ result = Raised(fault, 0)

DispatchPollErrorMappingWitness ==
    /\ dpc = "raised"
    /\ LastOp = "GET"
    /\ pendingSeen = 1
    /\ now < deadline
    /\ fault = "ClientConnectionError"
    /\ result = Raised("ClientConnectionError", 0)

\* C12: when the 2xx answer's body has status "error" and error message X, the
\* call raises NaradaError with message X and returns nothing, for every method
\* and whether or not a response model was passed.
ActionApplicationError ==
    (bodyRead /\ respJson.status = "error") =>
        /\ xpc = "raised"
        /\ runResult = XRaised("NaradaError", respJson.error)
        /\ xresult = XRaised("NaradaError", respJson.error)

ActionApplicationErrorWitness ==
    /\ xpc = "raised"
    /\ call.name = "get_full_html"
    /\ responseModel = "GetFullHtmlResponse"
    /\ httpStatus = 200
    /\ respJson = [status |-> "error", error |-> PyStr("X"),
                   data |-> PyStr("{html: <p>}")]
    /\ xresult = XRaised("NaradaError", PyStr("X"))

ActionSuccess ==
    /\ posts <= 1
    /\ xpc \in {"posted", "reading", "returned"} => posts = 1
    /\ xpc = "returned" =>
           /\ bodyRead
           /\ httpStatus \in 200..299
           /\ respJson.status = "success"
    /\ (bodyRead /\ respJson.status = "success") =>
           /\ responseModel = ShapeNone => (xpc = "returned" /\ runResult = XNone)
           /\ call.name \in {"go_to_url", "print_message", "write_google_sheet",
                             "close"} => runResult = XNone
           /\ (responseModel # ShapeNone /\ respJson.data # PyNone) =>
                  /\ runResult = ModelValidateJson(responseModel, respJson.data.s)
                  /\ xpc = "returned" =>
                         /\ runResult.model = responseModel
                         /\ DOMAIN runResult.fields = Fields(responseModel)
                         /\ \A f \in Fields(responseModel) :
                                runResult.fields[f] = JsonOf(respJson.data.s)[f]

ActionSuccessWitness ==
    /\ xpc = "returned"
    /\ posts = 1
    /\ call.name = "get_screenshot"
    /\ respJson.status = "success"
    /\ xresult.model = "GetScreenshotResponse"
    /\ xresult.fields["mime_type"] = PyStr("image/png")

\* C15: for get_text and get_property agentic_selector returns the value the
\* server's success data carries; for every other action type it returns
\* {"value": None}.
ActionSelectorValue ==
    (xpc = "returned" /\ call.name = "agentic_selector") =>
        IF call.action.type \in {"get_text", "get_property"}
        THEN respJson.data \in {PyStr("{value: Hello}"), PyStr("{value: null}")} =>
                 xresult.fields["value"] = JsonOf(respJson.data.s)["value"]
        ELSE xresult = XDict([x \in {"value"} |-> PyNone])

\* The camelCase wire type of an action type.
CamelCase(t) ==
    CASE t = "right_click" -> "rightClick"
      [] t = "double_click" -> "doubleClick"
      [] t = "select_option_by_index" -> "selectOptionByIndex"
      [] t = "select_option_by_value" -> "selectOptionByValue"
      [] t = "get_text" -> "getText"
      [] t = "get_property" -> "getProperty"
      [] OTHER -> t

\* C16: select_option_by_index with value v is encoded as exactly
\* {type: selectOptionByIndex, value: v}; the selector-action and mouse-action
\* encoders give every declared action the camelCase wire type of its type,
\* distinct types get distinct wire types, and value, text, pressEnter (false
\* when absent) and deltaX/deltaY (from horizontal/vertical) are carried over.
WireEncoding ==
    /\ (epc = "dumped" /\ plain.fn \in {"selector_action", "mouse_action"}) =>
           /\ wire.kind = "return"
           /\ wire.val.type = CamelCase(plain.arg.type)
           /\ plain.arg.type = "select_option_by_index" =>
                  wire.val = [type |-> "selectOptionByIndex",
                              value |-> plain.arg.value]
           /\ "value" \in DOMAIN plain.arg => wire.val.value = plain.arg.value
           /\ "text" \in DOMAIN plain.arg =>
                  /\ wire.val.text = plain.arg.text
                  /\ wire.val.pressEnter = IF "press_enter" \in DOMAIN plain.arg
                                           THEN plain.arg.press_enter ELSE FALSE
           /\ plain.arg.type = "scroll" =>
                  /\ wire.val.deltaX = plain.arg.horizontal
                  /\ wire.val.deltaY = plain.arg.vertical
    /\ \A a, b \in SelectorActions :
           (/\ a.type # b.type
            /\ dump_agentic_selector_action(a).kind = "return"
            /\ dump_agentic_selector_action(b).kind = "return") =>
               dump_agentic_selector_action(a).val.type #
                   dump_agentic_selector_action(b).val.type
    /\ \A a, b \in MouseActions :
           a.type # b.type =>
               dump_agentic_mouse_action(a).val.type #
                   dump_agentic_mouse_action(b).val.type

\* C17: the encoded selector bag has one entry for each key of the bag and no
\* other, under the key's camelCase name and holding {value: the bag's value},
\* whatever the value, the empty string included.
SelectorBagEncoding ==
    (epc = "dumped" /\ plain.fn = "selectors") =>
        /\ wire.kind = "return"
        /\ Cardinality(DOMAIN wire.val) = Cardinality(DOMAIN plain.arg)
        /\ \A k \in DOMAIN plain.arg :
               /\ WireKey(k) \in DOMAIN wire.val
               /\ wire.val[WireKey(k)] = [value |-> plain.arg[k]]

\* C18: a readiness wait is run only on a page whose URL equals the tagged
\* initialization URL of the launch running it, never on a page with another
\* tag or with none; while a wait runs, such a page is among the pages seen,
\* and a wait is started only in an iteration whose pages hold that page.
LaunchTaggedPage ==
    /\ [](/\ \A w \in waitedOn : w.url = InitUrl(w.tag) /\ w.tag \in Tags
          /\ lpc = "waiting" =>
                 /\ [tag |-> tag, url |-> InitUrl(tag)] \in waitedOn
                 /\ InitUrl(tag) \in pages)
    /\ [][InitUrl(tag') \notin pages' =>
              (waitedOn' = waitedOn /\ lpc' # "waiting")]_vars

LaunchTaggedPageWitness ==
    /\ lpc = "waiting"
    /\ rev = "current"
    /\ mode = "spawn"
    /\ attempt = 2
    /\ slept = 3
    /\ pages = {InitUrl("zz"), InitUrl("t1")}
    /\ waitedOn = {[tag |-> "t1", url |-> InitUrl("t1")]}

\* The step in which the side panel page is looked for, readiness resolved.
PanelLookupStep ==
    \/ mode = "spawn" /\ lpc = "resolved"
    \/ mode = "attach" /\ lpc = "reconnect" /\ connected'

\* C19: when readiness has resolved and the side panel page is not among the
\* open pages, the coordinator does not fail at once: it drops the connection
\* and goes back to the connect step, as long as attempts are left (at most
\* MaxCdpConnectAttempts iterations), for a spawned and for an attached browser.
LaunchPanelRetry ==
    [][(PanelLookupStep /\ ~panelFound' /\ attempt < MaxCdpConnectAttempts - 1) =>
           /\ lpc' = "connect"
           /\ ~connected'
           /\ attempt' = attempt + 1]_vars

\* C20: a non-interactive open_and_initialize_browser_window ends after at most
\* MaxCdpConnectAttempts loop iterations, connect retries and retries after a
\* missing side panel page together, with a fixed sleep between them, and it
\* creates the browser process at most once, in every revision.
LaunchBoundedRetries ==
    /\ spawned <= 1
    /\ attempt <= MaxCdpConnectAttempts - 1
    /\ slept \in {0, 2, 3}

\* C21: when every connection attempt of the launch coordinator has failed, the
\* caller gets NaradaTimeoutError, the error raised when the tagged page or the
\* side panel page is still missing on the last attempt.
LaunchConnectExhausted ==
    (/\ lpc = "raised"
     /\ mode = "spawn"
     /\ attempt = MaxCdpConnectAttempts - 1
     /\ ~connected
     /\ pages = {}
     /\ waitedOn = {}) =>
        lresult = LRaised("NaradaTimeoutError")


\* C22: in interactive mode a readiness wait that ends in extension-missing or
\* extension-unauthenticated is not raised; the operator is prompted, and only
\* after the acknowledgment is the page brought to the foreground, then
\* reloaded, and only then does the next readiness wait start; the loop ends
\* only with a window id, another error, or program exit.
InteractiveRetryOrdering ==
    /\ (interactive /\ rpc = "raised") => rresult.val \notin Prompted
    /\ rpc \in {"returned", "raised", "exited"} =>
           \/ rresult.kind = "return" /\ rresult.val \in WindowIds
           \/ rresult.kind = "raise" /\ (interactive => rresult.val \notin Prompted)
           \/ rresult = ExitProgram
    /\ \A i \in 1..Len(rlog) :
           /\ rlog[i] = "enter" => i > 1 /\ rlog[i - 1] \in Prompts
           /\ rlog[i] = "bring_to_front" => i > 1 /\ rlog[i - 1] = "enter"
           /\ rlog[i] = "reload" =>
                  i > 2 /\ rlog[i - 1] = "sleep" /\ rlog[i - 2] = "bring_to_front"
           /\ (rlog[i] = "wait" /\ i > 1) => rlog[i - 1] = "reload"
           /\ rlog[i] \in Prompts => interactive /\ i > 1 /\ rlog[i - 1] = "wait"

InteractiveRetryOrderingWitness ==
    /\ interactive
    /\ rpc = "returned"
    /\ Waits = 3
    /\ rlog[2] = PromptFor("NaradaExtensionMissingError")
    /\ rlog[8] = PromptFor("NaradaExtensionUnauthenticatedError")

\* C23: in non-interactive mode each of the four handshake errors is raised to
\* the caller on its first occurrence with no prompt and no reload; in
\* interactive mode none of the four reaches the caller, each leads to a prompt,
\* a reload and a new readiness wait.
HandshakePropagationPolicy ==
    /\ (~interactive /\ rpc = "raised") => rlog = <<"wait">>
    /\ ~interactive => rpc \in {"waiting", "returned", "raised"}
    /\ (interactive /\ rpc = "raised") => rresult.val \notin HandshakeErrors

\* C24: a page found closed at any step of the interactive loop ends the
\* program with exit status 1 after a message, and raises nothing into the
\* caller.
PageClosedExits ==
    (interactive /\ closedAt # "") =>
        /\ rpc = "exited"
        /\ rresult = ExitProgram
        /\ rlog[Len(rlog)] = "print"
        /\ Len(SelectSeq(rlog, LAMBDA op : op = "print")) = 1

PageClosedExitsWitness ==
    /\ interactive
    /\ closedAt = "reload"
    /\ rpc = "exited"
    /\ rresult = ExitProgram


\* C25: when the proxy requires credentials the browser is launched on
\* about:blank, the interceptor is installed before the navigation to the
\* tagged URL starts and detached only after it has completed, and the
\* install/navigate/detach sequence happens at most once in one launch; when
\* the proxy needs no credentials the browser is launched on the tagged URL
\* and no interceptor is installed.
ProxySequence == <<"install", "goto", "loaded", "detach">>

ProxyAuthOrdering ==
    /\ (mode = "spawn" /\ spawned > 0) =>
           launchUrl = IF proxy = "auth" THEN BlankUrl ELSE InitUrl(tag)
    /\ proxy # "auth" => plog = <<>>
    /\ Len(plog) <= Len(ProxySequence)
    /\ plog = SubSeq(ProxySequence, 1, Len(plog))
    /\ didNav => plog = ProxySequence

ProxyAuthOrderingWitness ==
    /\ proxy = "auth"
    /\ plog = ProxySequence
    /\ attempt >= 2
    /\ lpc = "returned"

\* C26: the handle of open_and_initialize_browser_window carries the process
\* id of the process that call spawned; the handle of
\* initialize_in_existing_browser_window carries none and that call spawns no
\* process; a proxy configuration given to it is rejected before any
\* connection is made.
HandleProcessOwnership ==
    /\ (mode = "spawn" /\ lpc = "returned") =>
           spawned >= 1 /\ lresult.pid = spawned
    /\ mode = "attach" => spawned = 0
    /\ (mode = "attach" /\ lpc = "returned") => lresult.pid = 0
    /\ (mode = "attach" /\ proxy # "none") =>
           /\ ~connected
           /\ pages = {}
           /\ waitedOn = {}
           /\ lpc \in {"start", "raised"}
           /\ lpc = "raised" => lresult = LRaised("ValueError")

HandleProcessOwnershipWitness ==
    /\ mode = "spawn"
    /\ rev = "current"
    /\ proxy = "open"
    /\ lpc = "returned"
    /\ lresult.pid = 1


\* C27: no operation of a handle changes its browser_window_id, and every
\* dispatch submission and every extension-action request sent through a
\* handle carries exactly that handle's browser_window_id, also when several
\* handles issue requests concurrently.
WindowIdRoutingIdentity ==
    /\ [][hwid' = hwid]_vars
    /\ [](\A r \in sent :
              r.endpoint \in {"remote-dispatch", "extension-actions"} =>
                  r.browserWindowId = hwid[r.handle])

WindowIdRoutingIdentityWitness ==
    /\ hwid["h1"] # hwid["h2"]
    /\ hpc["h1"] = "dispatching"
    /\ hpc["h2"] = "acting"
    /\ \E r \in sent : r.handle = "h1" /\ r.endpoint = "extension-actions"
    /\ \E r \in sent : r.handle = "h2" /\ r.endpoint = "remote-dispatch"


\* C28: entering the client context raises, and the driver is not started,
\* whenever the SDK config was fetched and the client's version is below the
\* declared minimum; with a version at least the minimum the context is
\* entered normally; when the config cannot be fetched (request error or
\* error status) the check is skipped and the client proceeds.
VersionGate ==
    LET below == \/ version[1] < sdkConfig.min[1]
                 \/ version[1] = sdkConfig.min[1] /\ version[2] < sdkConfig.min[2]
    IN  gpc # "fetching" =>
            /\ (sdkConfig.kind = "config" /\ below) =>
                   /\ gpc = "raised"
                   /\ gresult = Raise("RuntimeError")
                   /\ ~playwright
            /\ \/ sdkConfig.kind = "config" /\ ~below
               \/ sdkConfig = ConfigNone
               => /\ gpc \in {"starting", "entered", "raised"}
                  /\ gpc = "raised" => gresult = Raise("PlaywrightError")
                  /\ gpc = "entered" => playwright /\ gresult = Return("self")

VersionGateWitness ==
    /\ sdkConfig = ConfigOf(<<1, 0>>)
    /\ version = <<0, 2>>
    /\ gpc = "raised"


\* C29: once the backend has created a cloud browser session, every failure of
\* the initialization causes exactly one stop request for that session id,
\* with status failed, before the failure reaches the caller, who receives the
\* original error even when the cleanup request fails; no stop request is sent
\* when initialization succeeds.
CloudSessionCleanup ==
    /\ (csession # "" /\ cpc \in {"raised", "exited"}) =>
           stops = <<StopRequest(csession)>>
    /\ (csession # "" /\ cpc = "raised") => cresult = Raise(cerr)
    /\ cpc = "returned" => stops = <<>>


\* C30: wait_for_download, called when no download is in progress, returns
\* the DownloadInfo of a download that then begins and completes before the
\* timeout, in any interleaving of the events with the polling; it returns
\* None only on timeout or when the awaited download was canceled or
\* interrupted.
WaitForDownloadNoMiss ==
    (dlpc = "returned" /\ caller = "wait_for_download" /\ polled /\ timed) =>
        /\ (\E g \in fresh : downloads[g].state = "completed" /\ doneAt[g] < ddeadline)
               => /\ dresult.kind = "DownloadInfo"
                  /\ dresult.guid \in fresh
                  /\ downloads[dresult.guid].state = "completed"
        /\ dresult = DNone =>
               \/ target = "" /\ dnow >= ddeadline
               \/ target # "" /\ done_events[target] # "set"
                              /\ dnow - waitStart >= dtimeout
               \/ target # "" /\ downloads[target].state \in {"canceled", "interrupted"}


\* C33: the cloud readiness loop runs the wait at most 5 times, retries only
\* after extension-missing, runs no further wait once a wait has returned a
\* window id and builds the handle from that id; extension-missing is raised
\* only if all 5 attempts ended in extension-missing.
CloudRetryStopsAtSuccess ==
    /\ cattempt <= MaxAttempts - 1
    /\ cpc \in {"waiting", "sleeping"} => cwid = ""
    /\ (cpc = "stopping" /\ cerr = "NaradaExtensionMissingError") => cwid = ""


\* C31: wait_for_all without a timeout returns only after every download
\* tracked at the call has reached a terminal state; the returned list holds
\* exactly one DownloadInfo for each tracked download whose state is
\* completed and none for canceled or interrupted ones; with nothing tracked
\* it returns the empty list at once; on timeout it returns the downloads
\* completed so far instead of raising.
WaitForAllResult ==
    (dlpc = "returned" /\ caller = "wait_for_all") =>
        /\ dresult.kind = "list"
        /\ ~timed => \A g \in gathered : downloads[g].state \in TerminalStates
        /\ \A g \in Guids :
               LET listed == {i \in 1..Len(dresult.infos) : dresult.infos[i].guid = g}
               IN  /\ Cardinality(listed) =
                          IF downloads[g].state = "completed" THEN 1 ELSE 0
                   /\ \A i \in listed : dresult.infos[i].size = downloads[g].received
        /\ gathered = {} => dresult.infos = <<>> /\ dnow = 0 /\ order = <<>>

WaitForAllResultWitness ==
    /\ dlpc = "returned"
    /\ caller = "wait_for_all"
    /\ ~timed
    /\ gathered = Guids
    /\ downloads["g1"].state = "canceled"
    /\ downloads["g2"].state = "completed"
    /\ dnow > 0
    /\ Len(dresult.infos) = 1

LaunchResultComplete ==
    (rev = "current" /\ mode = "spawn") =>
        /\ attempt <= MaxCdpConnectAttempts - 1
        /\ lpc = "returned" =>
               /\ windowId \in WindowIds
               /\ lresult.windowId = windowId
               /\ panelFound
               /\ PanelUrl(windowId) \in pages
               /\ [tag |-> tag, url |-> InitUrl(tag)] \in waitedOn
        /\ lpc = "resolved" => connected /\ windowId \in WindowIds

LaunchResultCompleteWitness ==
    /\ rev = "current"
    /\ mode = "spawn"
    /\ lpc = "returned"
    /\ attempt = MaxCdpConnectAttempts - 1
    /\ lresult.windowId = "win-2"


\* C34: whenever dispatch_request returns a terminal response (status success,
\* error or input-required, content present or null), agent() returns an
\* AgentResponse carrying that request id and status; it never fails with an
\* internal assertion.
AgentCoversTerminalOutcomes ==
    (dpc = "returned" /\ agentResult # ANoResult) =>
        /\ agentResult.kind = "AgentResponse"
        /\ agentResult.request_id = result.response.requestId
        /\ agentResult.status = result.response.status

\* C35: with an output schema, a terminal status of error or input-required
\* whose text does not conform to the schema is still returned to the caller,
\* not raised as a parsing error.
DispatchReturnsNonSuccess ==
    (/\ dpc \in {"returned", "raised"}
     /\ fault = ""
     /\ outputSchema
     /\ answer.status \in {"error", "input-required"}
     /\ answer.response.tag = "object"
     /\ model_validate_json(answer.response.text) = SoInvalid) =>
        /\ result.kind = "return"
        /\ result.response.status = answer.status

\* C36: a poll GET is started only while the clock is strictly before the
\* deadline, with a transport timeout equal to the time remaining; after a
\* sleep that carries the clock past the deadline no further GET is issued
\* and the agent-timeout error is raised.
NoPollAfterDeadline ==
    /\ [][dpc = "polling" =>
              IF now < deadline
              THEN log' = Append(log, Get(deadline - now)) /\ dpc' = "getting"
              ELSE /\ log' = log
                   /\ dpc' = "raised"
                   /\ result' = Raised("NaradaAgentTimeoutError", timeout)]_vars
    /\ [][Count("GET")' > Count("GET") => dpc = "polling" /\ now < deadline]_vars
    /\ [](\A i \in 1..Len(log) : log[i].op = "GET" => log[i].arg > 0)

NoPollAfterDeadlineWitness ==
    /\ dpc = "raised"
    /\ fault = ""
    /\ LastOp = "SLEEP"
    /\ now > deadline
    /\ Count("GET") = 1
    /\ result = Raised("NaradaAgentTimeoutError", timeout)


\* C37: between calls of connect() and cleanup() on a managed window, page
\* set implies context set implies browser set implies driver set; a
\* connect() on a connected window opens no second connection; a cleanup()
\* never raises, has posted its stop request, and leaves driver, browser,
\* context and page all unset.
ManagedConnectionConsistent ==
    mpc = "idle" =>
        /\ m_page # 0 => m_context # 0
        /\ m_context # 0 => m_browser # 0
        /\ m_browser # 0 => m_playwright # 0
        /\ m_browser # 0 => m_browser = connections
        /\ mlast.op = "cleanup" =>
               /\ mlast.kind = "return"
               /\ mstops > 0
               /\ m_playwright = 0 /\ m_browser = 0
               /\ m_context = 0 /\ m_page = 0


\* C40: in the earlier coordinator revisions, once a connection attempt has
\* succeeded the connect loop makes no further attempt, and the call is not
\* ended by a connection error of a later attempt.
ConnectStopsAtFirstSuccess ==
    (rev = "earlier" /\ connected) =>
        /\ lpc # "connect"
        /\ ~(lresult.kind = "raise" /\ lresult.err = "PlaywrightError")


\* C38: of two launches running concurrently in one browser, each runs its
\* readiness wait on the page of its own window only and returns the window
\* id of its own window, never the other's.
ConcurrentLaunchesDoNotCross ==
    \A c \in Launches :
        /\ qwait[c] \in {NoWindow, c}
        /\ qresult[c].kind = "return" => qresult[c].windowId = WindowIdOf(c)

====
